---- MODULE Spec2Model ----
(***************************************************************************)
(* A model of the SAFECode run-time memory-safety engine:                  *)
(*   - the bit-mask slab allocator, the per-pool object registry and the   *)
(*     dangling-pointer detector  (runtime/SafePoolAllocator),             *)
(*   - the index (bounds) checks and the out-of-bounds pointer rewriter    *)
(*     (runtime/DebugRuntime/RuntimeChecks.cpp and SafePoolAllocator),     *)
(*   - the SoftBound+CETS trie metadata and key/lock temporal checks       *)
(*     (runtime/SoftBoundRuntime/softboundcets.h).                         *)
(* Addresses are natural numbers.  Page, node and range sizes are scaled   *)
(* down; the layout relations the code relies on are kept.                 *)
(***************************************************************************)
EXTENDS Integers, Sequences, FiniteSets, TLC

(***************************************************************************)
(* Sizes of the scaled-down memory layout and bounds of the exploration.   *)
(***************************************************************************)
\* Pool->NodeSize, the argument of poolinit (bytes per node).
NodeSize == 2
\* PoolSlab::getSlabSize(Pool): nodes in one slab.
NodesPerSlab == 3
\* Bytes of a slab page in front of node 0 (slab header and NodeFlagsVector).
HeaderBytes == 2
\* Number of poolalloc calls explored.
MaxAllocs == 3

\* One page holds the header and the nodes of one slab (PoolSlab::create
\* asserts Size <= PageSize).
PPageSize == HeaderBytes + NodesPerSlab * NodeSize

\* First page number RemapObject hands out for shadow mappings.
ShadowFirstPage == 50

VARIABLES
  \* ---- slab allocator (PoolTy, PoolSlab) ----
  slabs,          \* slab id -> PoolSlab fields
  Ptr1,           \* Pool->Ptr1: list of empty or partially allocated slabs
  Ptr2,           \* Pool->Ptr2: list of full slabs
  LargeArrays,    \* Pool->LargeArrays: list of single-array slabs
  released,       \* slabs whose pages PoolSlab::destroy gave back
  StackSlabs,     \* Pool->StackSlabs: list of [shadow, canon, tos] stack slabs
  FreeStackSlabs, \* Pool->FreeStackSlabs: canonical pages of released slabs
  allocas,        \* history: objects pool_alloca returned, [start, len, slab, released]
  nextPage,       \* next canonical page the page manager hands out
  nextShadow,     \* next shadow page RemapObject hands out
  \* ---- registries ----
  Objects,        \* Pool->Objects: set of [start, len, tag]
  DPTree,         \* dummyPool.DPTree: set of [start, len, tag]
  meta,           \* DebugMetaData records, indexed by tag (= allocID)
  globalallocID,
  globalfreeID,
  \* ---- dangling pointer detector ----
  protected,      \* set of page numbers made inaccessible
  sigbus,         \* installed SIGBUS disposition
  lastAccess,     \* outcome of the last access through a freed pointer
  aborted,        \* the process was terminated (assert / abort)
  APPLE,          \* the build defines __APPLE__
  \* ---- history of the allocator, used to state the properties ----
  live,           \* set of [start, len, slab, idx, n]: allocated, not freed
  freed,          \* set of [start, len, tag, freeEpoch]: objects that were freed
  lastOp,         \* the last allocator call and what it returned
  \* ---- bounds checks and the out-of-bounds pointer rewriter ----
  runtime,        \* the run-time library linked into the program
  StrictIndexing, \* ConfigData.StrictIndexing
  TrackExternalMallocs, \* ConfigData.TrackExternalMallocs
  ExternalObjects,\* registry of objects allocated outside the pools
  InvalidLower,   \* start of the address range reserved for rewritten pointers
  invalidptr,     \* the rewriter's cursor
  OOB,            \* Pool->OOB: rewritten pointer -> original value
  OOBPool,        \* OOB registry of the pool local to rewrite_ptr
  RewrittenObjs,  \* rewritten pointer -> bounds of the object it came from
  issuedFor,      \* history: rewritten pointer -> what the check rewrote it for
  lastCall,       \* the last check or rewriter call and its outcome
  \* ---- SoftBound+CETS metadata (softboundcets.h) ----
  WORDSIZE,       \* __WORDSIZE of the build: 32 or 64
  trie_primary_table, \* primary index -> secondary table, NullTable if none
  key_id_counter, \* __softboundcets_key_id_counter
  lock_next_location, \* head of the free list of lock cells, 0 when empty
  lock_new_location,  \* next lock cell that was never handed out
  lockMem,        \* contents of the lock cells written so far
  free_map_table, \* __softboundcets_free_map_table, the entries written
  \* ---- history of the SoftBound calls, used to state the properties ----
  sbLive,         \* set of [key, lock]: allocated, not deallocated
  sbFreed,        \* set of [key, lock]: deallocated
  stored,         \* slot address -> whether stored to, and the last tuple
  fmPairs,        \* set of [key, ptr]: added to the free map, not removed
  lastSB,         \* the last SoftBound call and its outcome
  \* ---- SoftBound+CETS shadow stack ----
  shadow_stack_ptr, \* __softboundcets_shadow_stack_ptr, as a word index
  shadow_stack,   \* the words of the shadow stack
  frames          \* history: the frames allocated and not yet deallocated

\* The state of the slab allocator and the dangling pointer detector, without
\* the pool's registry and the termination flag that the checks share.
poolVars == <<slabs, Ptr1, Ptr2, LargeArrays, nextPage, nextShadow, DPTree,
              meta, globalallocID, globalfreeID, protected, sigbus, lastAccess,
              live, freed, lastOp, APPLE, released>>

checkVars == <<runtime, StrictIndexing, TrackExternalMallocs, ExternalObjects,
               InvalidLower, invalidptr, OOB, OOBPool, RewrittenObjs, issuedFor,
               lastCall>>

ssVars == <<shadow_stack_ptr, shadow_stack, frames>>

sbVars == <<WORDSIZE, trie_primary_table, key_id_counter, lock_next_location,
            lock_new_location, lockMem, free_map_table, sbLive, sbFreed,
            stored, fmPairs, lastSB, ssVars>>

stackVars == <<StackSlabs, FreeStackSlabs, allocas>>

vars == <<poolVars, Objects, aborted, checkVars, sbVars, stackVars>>

(***************************************************************************)
(* Small helpers.                                                          *)
(***************************************************************************)
PageOf(addr) == addr \div PPageSize

PageOffset(addr) == addr % PPageSize

RECURSIVE SeqRemove(_, _)
SeqRemove(s, x) ==
  IF s = <<>> THEN <<>>
  ELSE IF Head(s) = x THEN SeqRemove(Tail(s), x)
  ELSE <<Head(s)>> \o SeqRemove(Tail(s), x)

InSeq(s, x) == \E i \in 1..Len(s) : s[i] = x

(***************************************************************************)
(* PoolSlab.                                                               *)
(***************************************************************************)
NodeIdx == 0..(NodesPerSlab - 1)

\* PoolSlab::create: a new, empty slab on canonical page `page`.
PoolSlab_create(page) ==
  [ isSingleArray |-> FALSE,
    FirstUnused   |-> 0,
    UsedBegin     |-> 0,
    UsedEnd       |-> 0,
    alloc         |-> [i \in NodeIdx |-> FALSE],
    start         |-> [i \in NodeIdx |-> FALSE],
    page          |-> page,
    SizeOfSlab    |-> 0 ]

\* PoolSlab::createSingleArray: NumPages pages for one array.  The node flags
\* and UsedEnd are never written; FirstUnused and UsedBegin are overwritten
\* by the 32-bit page count.
PoolSlab_createSingleArray(page, NumPages) ==
  [ isSingleArray |-> TRUE,
    FirstUnused   |-> NumPages % 65536,
    UsedBegin     |-> NumPages \div 65536,
    UsedEnd       |-> 0,
    alloc         |-> [i \in NodeIdx |-> FALSE],
    start         |-> [i \in NodeIdx |-> FALSE],
    page          |-> page,
    SizeOfSlab    |-> NumPages * PPageSize ]

\* isNodeAllocated: bit NodeNum of the flags; bits past the last node are
\* padding that no code sets.
isNodeAllocated(s, n) == IF n \in NodeIdx THEN s.alloc[n] ELSE FALSE

isStartOfAllocation(s, n) == IF n \in NodeIdx THEN s.start[n] ELSE FALSE

isEmpty(s) == s.UsedEnd = 0

isFull(s) == s.isSingleArray \/ s.FirstUnused = NodesPerSlab

\* PoolSlab::assertOkay
assertOkay(s) ==
  /\ s.FirstUnused <= s.UsedEnd
  /\ (s.UsedEnd = NodesPerSlab \/ ~isNodeAllocated(s, s.UsedEnd))
  /\ (s.FirstUnused = NodesPerSlab \/ ~isNodeAllocated(s, s.FirstUnused))

\* getElementAddress(ElementNum, ElementSize)
getElementAddress(s, ElementNum, ElementSize) ==
  s.page * PPageSize + HeaderBytes + ElementNum * ElementSize

\* markNodeAllocated for nodes lo..hi-1
MarkRun(s, lo, hi) ==
  [s EXCEPT !.alloc = [i \in NodeIdx |-> IF lo <= i /\ i < hi THEN TRUE ELSE @[i]]]

setStartBit(s, n) == [s EXCEPT !.start[n] = TRUE]

\* Result of an allocation attempt on one slab: the slab afterwards, the
\* element index (-1: no space) and whether an assert of the code failed.
AllocRes(s, ret, af) == [s |-> s, ret |-> ret, af |-> af]

\* The do-while of allocateSingle: the next index above fu that is free.
RECURSIVE NextFree(_, _)
NextFree(s, fu) ==
  IF fu # NodesPerSlab /\ isNodeAllocated(s, fu) THEN NextFree(s, fu + 1) ELSE fu

\* A faulty allocateSingle that always hands out node 0.
allocateSingle_first(s) == AllocRes(setStartBit(MarkRun(s, 0, 1), 0), 0, FALSE)

\* PoolSlab::allocateSingle
allocateSingle(s) ==
  IF s.isSingleArray THEN AllocRes(s, -1, FALSE)
  ELSE IF s.UsedEnd < NodesPerSlab THEN
    LET UE == s.UsedEnd
        s1 == setStartBit(MarkRun(s, UE, UE + 1), UE)
        s2 == [s1 EXCEPT !.FirstUnused = IF @ = UE THEN @ + 1 ELSE @,
                         !.UsedBegin   = IF @ > UE THEN UE ELSE @,
                         !.UsedEnd     = UE + 1]
    IN AllocRes(s2, UE, ~assertOkay(s2))
  ELSE IF s.FirstUnused < NodesPerSlab THEN
    LET Idx == s.FirstUnused
        s1  == setStartBit(MarkRun(s, Idx, Idx + 1), Idx)
        s2  == [s1 EXCEPT !.FirstUnused = NextFree(s1, Idx + 1),
                          !.UsedBegin   = IF @ > Idx THEN Idx ELSE @]
    IN AllocRes(s2, Idx, ~assertOkay(s2))
  ELSE AllocRes(s, -1, ~assertOkay(s))

\* First index in from..lim that is allocated, or lim.
RECURSIVE ScanFree(_, _, _)
ScanFree(s, from, lim) ==
  IF from # lim /\ ~isNodeAllocated(s, from) THEN ScanFree(s, from + 1, lim) ELSE from

\* The inner while of allocateMultiple that skips allocated nodes.
RECURSIVE SkipAllocated(_, _, _)
SkipAllocated(s, Idx, Size) ==
  IF Idx + Size <= NodesPerSlab /\ isNodeAllocated(s, Idx)
  THEN SkipAllocated(s, Idx + 1, Size) ELSE Idx

\* The for loop that moves FirstUnused past the run just allocated.
RECURSIVE BumpScan(_, _)
BumpScan(s, i) ==
  IF i < s.UsedEnd /\ isNodeAllocated(s, i) THEN BumpScan(s, i + 1) ELSE i

\* The while (Idx+Size <= getSlabSize()) loop of allocateMultiple.
RECURSIVE allocateMultipleScan(_, _, _)
allocateMultipleScan(s, Size, Idx) ==
  IF Idx + Size > NodesPerSlab THEN AllocRes(s, -1, ~assertOkay(s))
  ELSE IF isNodeAllocated(s, Idx) THEN AllocRes(s, -1, TRUE)
  ELSE
    LET LastUnused == ScanFree(s, Idx + 1, Idx + Size)
    IN IF LastUnused = Idx + Size THEN
         LET s1 == MarkRun(setStartBit(s, Idx), Idx, Idx + Size)
             i  == BumpScan(s1, s.FirstUnused + Size)
             fu == IF Idx = s.FirstUnused
                   THEN (IF isNodeAllocated(s1, i) THEN NodesPerSlab ELSE i)
                   ELSE s.FirstUnused
             s2 == [s1 EXCEPT !.FirstUnused = fu,
                              !.UsedBegin   = IF @ > Idx THEN Idx ELSE @]
         IN AllocRes(s2, Idx, (Idx = s.UsedEnd) \/ ~assertOkay(s2))
       ELSE allocateMultipleScan(s, Size, SkipAllocated(s, LastUnused, Size))

\* A faulty allocateMultiple that leaves FirstUnused behind when it allocates
\* at the end of the used part.
allocateMultiple_keepFirst(s, Size) ==
  IF s.isSingleArray THEN AllocRes(s, -1, FALSE)
  ELSE IF s.UsedEnd + Size <= NodesPerSlab THEN
    LET UE == s.UsedEnd
        s1 == MarkRun(setStartBit(s, UE), UE, UE + Size)
        s2 == [s1 EXCEPT !.UsedBegin   = IF @ > UE THEN UE ELSE @,
                         !.UsedEnd     = UE + Size]
    IN AllocRes(s2, UE, FALSE)
  ELSE allocateMultipleScan(s, Size, s.FirstUnused)

\* PoolSlab::allocateMultiple
allocateMultiple(s, Size) ==
  IF s.isSingleArray THEN AllocRes(s, -1, FALSE)
  ELSE IF s.UsedEnd + Size <= NodesPerSlab THEN
    LET UE == s.UsedEnd
        s1 == MarkRun(setStartBit(s, UE), UE, UE + Size)
        s2 == [s1 EXCEPT !.FirstUnused = IF @ = UE THEN @ + Size ELSE @,
                         !.UsedBegin   = IF @ > UE THEN UE ELSE @,
                         !.UsedEnd     = UE + Size]
    IN AllocRes(s2, UE, ~assertOkay(s2))
  ELSE allocateMultipleScan(s, Size, s.FirstUnused)

\* PoolSlab::lastNodeAllocated: one past the highest allocated node at or
\* below ScanIdx, 0 if there is none.
lastNodeAllocated(s, ScanIdx) ==
  LET below == {i \in NodeIdx : i <= ScanIdx /\ s.alloc[i]}
  IN IF below = {} THEN 0
     ELSE (CHOOSE i \in below : \A j \in below : j <= i) + 1

\* A faulty scan that does not stop at the start bit of the next allocation.
RECURSIVE RunEnd_through(_, _, _)
RunEnd_through(s, e, UE) ==
  IF e # UE /\ isNodeAllocated(s, e) THEN RunEnd_through(s, e + 1, UE) ELSE e

\* The while loop of freeElement: end of the run that starts at ElementIdx.
RECURSIVE RunEnd(_, _, _)
RunEnd(s, e, UE) ==
  IF e # UE /\ ~isStartOfAllocation(s, e) /\ isNodeAllocated(s, e)
  THEN RunEnd(s, e + 1, UE) ELSE e

\* PoolSlab::freeElement on a slab with initialised flags.
freeElement(s, ElementIdx) ==
  IF ~isNodeAllocated(s, ElementIdx) THEN AllocRes(s, ElementIdx, FALSE)
  ELSE
    LET af0 == ~isStartOfAllocation(s, ElementIdx)
        UE  == s.UsedEnd
        sa  == [s EXCEPT !.start[ElementIdx] = FALSE]
        ElementEndIdx == RunEnd(sa, ElementIdx + 1, UE)
        s1  == [sa EXCEPT !.alloc = [i \in NodeIdx |->
                              IF ElementIdx <= i /\ i < ElementEndIdx
                              THEN FALSE ELSE @[i]]]
        s2  == [s1 EXCEPT !.FirstUnused = IF ElementIdx < @ THEN ElementIdx ELSE @,
                          !.UsedBegin   = IF ElementIdx = @ THEN ElementEndIdx ELSE @]
        s3  == IF ElementEndIdx = UE THEN
                 IF s2.UsedBegin = UE THEN
                   [s2 EXCEPT !.FirstUnused = 0, !.UsedBegin = 0, !.UsedEnd = 0]
                 ELSE IF s2.FirstUnused = ElementIdx THEN
                   [s2 EXCEPT !.UsedEnd = ElementIdx]
                 ELSE
                   LET ue == lastNodeAllocated(s2, ElementIdx)
                   IN [s2 EXCEPT !.UsedEnd = ue,
                                 !.FirstUnused = IF @ > ue THEN ue ELSE @]
               ELSE s2
    IN AllocRes(s3, ElementIdx, af0 \/ ~assertOkay(s3))

\* PoolSlab::containsElement: element number of Ptr in the slab, -1 if the
\* address is not in the slab, -2 for the abort on a pointer into the middle
\* of an element.
containsElement(s, Ptr, ElementSize) ==
  LET FirstElement == getElementAddress(s, 0, 0)
      Delta == Ptr - FirstElement
  IN IF FirstElement <= Ptr THEN
       IF s.isSingleArray /\ Delta < s.SizeOfSlab THEN Delta \div ElementSize
       ELSE IF Delta \div ElementSize < NodesPerSlab THEN
         (IF Delta % ElementSize # 0 THEN -2 ELSE Delta \div ElementSize)
       ELSE -1
     ELSE -1


(***************************************************************************)
(* The range registry (adl_splay): a set of [start, len, tag] ranges.      *)
(***************************************************************************)
Contains(e, a) == e.start <= a /\ a < e.start + e.len

\* The entries whose range contains address a.
splay_find(tree, a) == {e \in tree : Contains(e, a)}

\* Insert a range unless the key already lies in a registered range.
adl_splay_insert(tree, start, len, tag) ==
  IF splay_find(tree, start) # {} THEN tree
  ELSE tree \cup {[start |-> start, len |-> len, tag |-> tag]}

\* Remove the range the key lies in.
adl_splay_delete(tree, key) == {e \in tree : ~Contains(e, key)}

(***************************************************************************)
(* poolalloc.                                                              *)
(***************************************************************************)
\* The byte count poolalloc works with: at least one byte.
AtLeastOneByte(NumBytes) == IF NumBytes = 0 THEN 1 ELSE NumBytes

NodesFor(NumBytes) == (AtLeastOneByte(NumBytes) + NodeSize - 1) \div NodeSize

\* One allocation attempt on a slab: poolalloc uses allocateSingle for one
\* node, poolallocarray uses allocateMultiple.
AllocOn(s, n) == IF n > 1 THEN allocateMultiple(s, n) ELSE allocateSingle(s)

\* Position in Ptr1 of the first slab with room for n nodes, 0 if none.
FirstFit(n) ==
  LET fits == {i \in 1..Len(Ptr1) : AllocOn(slabs[Ptr1[i]], n).ret # -1}
  IN IF fits = {} THEN 0 ELSE CHOOSE i \in fits : \A j \in fits : i <= j

\* The bookkeeping poolalloc does with the address it is about to return:
\* a fresh DebugMetaData record and the entry of the pool's registry.
poolalloc_register(tree, retAddress, NumBytes, tag) ==
  adl_splay_insert(tree, retAddress, NumBytes, tag)

\* createPtrMetaData
createPtrMetaData(paramAllocID, paramFreeID, paramCanon) ==
  [allocID |-> paramAllocID, freeID |-> paramFreeID, canonAddr |-> paramCanon]

\* What every path of poolalloc does once the canonical address globalTemp
\* and the address to return are known.
Registered(retAddress, NB, canon, slab, idx, n, NumBytes) ==
  LET id == globalallocID + 1
  IN /\ globalallocID' = id
     /\ meta' = (id :> createPtrMetaData(id, globalfreeID, canon)) @@ meta
     /\ DPTree' = adl_splay_insert(DPTree, retAddress, NB, id)
     /\ Objects' = poolalloc_register(Objects, retAddress, NB, id)
     /\ live' = live \cup {[start |-> retAddress, len |-> NB, slab |-> slab,
                            idx |-> idx, n |-> n, tag |-> id]}
     /\ lastOp' = [op |-> "poolalloc", arg |-> NumBytes, ret |-> retAddress]

\* RemapObject: the canonical page is mapped again at a fresh shadow page;
\* the caller adds the offset within the page.
RemapObject(canon) == (ShadowFirstPage + nextShadow) * PPageSize

\* poolallocarray, Size > getSlabSize: a single-array slab, returned without
\* remapping.
poolalloc_large(NumBytes) ==
  LET NB       == AtLeastOneByte(NumBytes)
      NumNodes == NodesFor(NumBytes)
      NumPages == (NumNodes + NodesPerSlab - 1) \div NodesPerSlab
      PS       == PoolSlab_createSingleArray(nextPage, NumPages)
      canon    == getElementAddress(PS, 0, 0)
  IN /\ slabs' = (nextPage :> PS) @@ slabs
     /\ LargeArrays' = <<nextPage>> \o LargeArrays
     /\ nextPage' = nextPage + NumPages
     /\ Registered(canon, NB, canon, nextPage, 0, NumNodes, NumBytes)
     /\ UNCHANGED <<Ptr1, Ptr2, nextShadow, aborted>>

\* poolalloc / poolallocarray, a slab of Ptr1 has room.
poolalloc_fit(NumBytes, pos) ==
  LET NB    == AtLeastOneByte(NumBytes)
      n     == NodesFor(NumBytes)
      id    == Ptr1[pos]
      res   == AllocOn(slabs[id], n)
      af    == \E j \in 1..pos : AllocOn(slabs[Ptr1[j]], n).af
      canon == getElementAddress(res.s, res.ret, NodeSize)
      ret   == RemapObject(canon) + PageOffset(canon)
  IN IF af THEN /\ aborted' = TRUE
                /\ UNCHANGED <<slabs, Ptr1, Ptr2, LargeArrays, nextPage, nextShadow,
                               Objects, DPTree, meta, globalallocID, live, lastOp>>
     ELSE /\ slabs' = [slabs EXCEPT ![id] = res.s]
          /\ IF isFull(res.s)
             THEN /\ Ptr1' = SeqRemove(Ptr1, id)
                  /\ Ptr2' = <<id>> \o Ptr2
             ELSE UNCHANGED <<Ptr1, Ptr2>>
          /\ nextShadow' = nextShadow + 1
          /\ Registered(ret, NB, canon, id, res.ret, n, NumBytes)
          /\ UNCHANGED <<LargeArrays, nextPage, aborted>>

\* poolalloc / poolallocarray, no slab has room: PoolSlab::create puts a new
\* slab at the head of Ptr1 and the allocation takes its node 0.
poolalloc_newslab(NumBytes) ==
  LET NB    == AtLeastOneByte(NumBytes)
      n     == NodesFor(NumBytes)
      af0   == \E j \in 1..Len(Ptr1) : AllocOn(slabs[Ptr1[j]], n).af
      res   == AllocOn(PoolSlab_create(nextPage), n)
      canon == getElementAddress(res.s, 0, 0)
      ret   == RemapObject(canon) + PageOffset(canon)
  IN IF af0 \/ res.af \/ res.ret # 0
     THEN /\ aborted' = TRUE
          /\ UNCHANGED <<slabs, Ptr1, Ptr2, LargeArrays, nextPage, nextShadow,
                         Objects, DPTree, meta, globalallocID, live, lastOp>>
     ELSE /\ slabs' = (nextPage :> res.s) @@ slabs
          /\ Ptr1' = <<nextPage>> \o Ptr1
          /\ nextPage' = nextPage + 1
          /\ nextShadow' = nextShadow + 1
          /\ Registered(ret, NB, canon, nextPage, 0, n, NumBytes)
          /\ UNCHANGED <<Ptr2, LargeArrays, aborted>>

poolalloc(NumBytes) ==
  /\ ~aborted
  /\ globalallocID < MaxAllocs
  /\ IF NodesFor(NumBytes) > NodesPerSlab THEN poolalloc_large(NumBytes)
     ELSE IF FirstFit(NodesFor(NumBytes)) # 0
          THEN poolalloc_fit(NumBytes, FirstFit(NodesFor(NumBytes)))
          ELSE poolalloc_newslab(NumBytes)
  /\ UNCHANGED <<globalfreeID, protected, sigbus, lastAccess, freed, APPLE,
                 released>>
  /\ UNCHANGED <<checkVars, sbVars, stackVars>>

(***************************************************************************)
(* poolfree.                                                               *)
(***************************************************************************)
\* A faulty page count that covers the first page only.
NumPPageOf_one(len, offset) == 1

\* Number of pages poolfree protects and bus_error_handler unprotects for an
\* object of len bytes addressed at the given offset within its page.
NumPPageOf(len, offset) ==
  LET n == (len \div PPageSize) + 1
  IN IF len - (n - 1) * PPageSize > PPageSize - offset THEN n + 1 ELSE n

PagesFrom(addr, n) == {PageOf(addr) + i : i \in 0..(n - 1)}

\* SearchForContainingSlab: Ptr1, then Ptr2, then LargeArrays; the first slab
\* whose containsElement is not -1.  PS = 0: no slab found.
SearchForContainingSlab(Node) ==
  LET order == Ptr1 \o Ptr2 \o LargeArrays
      hits  == {i \in 1..Len(order) :
                   containsElement(slabs[order[i]], Node, NodeSize) # -1}
      first == CHOOSE i \in hits : \A j \in hits : i <= j
  IN IF hits = {} THEN [PS |-> 0, Idx |-> -1]
     ELSE [PS |-> order[first],
           Idx |-> containsElement(slabs[order[first]], Node, NodeSize)]

\* updatePtrMetaData
updatePtrMetaData(m, paramFreeID) == [m EXCEPT !.freeID = paramFreeID]

\* A faulty poolfree that leaves the registry entry in place.
poolfree_unregister_keep(tree, Node) == tree

\* The registry step of poolfree.
poolfree_unregister(tree, Node) == adl_splay_delete(tree, Node)

\* The list Ptr1 after poolfree re-inserts a slab that was full: behind an
\* empty slab at the head of the list, otherwise at the head.
InsertAfterEmptyHead(list, id) ==
  IF list # <<>> /\ isEmpty(slabs'[Head(list)])
  THEN <<Head(list), id>> \o Tail(list)
  ELSE <<id>> \o list

\* The list moves of poolfree, once freeElement has run on slab id.
poolfree_relink(id) ==
  LET PS == slabs'[id]
      \* if (PS->isFull()) { unlinkFromList(); if (!isSingleArray) addToList }
      a1 == IF isFull(PS) THEN SeqRemove(Ptr1, id) ELSE Ptr1
      a2 == IF isFull(PS) THEN SeqRemove(Ptr2, id) ELSE Ptr2
      aL == IF isFull(PS) THEN SeqRemove(LargeArrays, id) ELSE LargeArrays
      b1 == IF isFull(PS) /\ ~PS.isSingleArray
            THEN InsertAfterEmptyHead(a1, id) ELSE a1
      \* if (PS->isEmpty() && !isSingleArray) { unlinkFromList(); addToList(Ptr1) }
      mv == isEmpty(PS) /\ ~PS.isSingleArray
  IN /\ Ptr1' = IF mv THEN <<id>> \o SeqRemove(b1, id) ELSE b1
     /\ Ptr2' = IF mv THEN SeqRemove(a2, id) ELSE a2
     /\ LargeArrays' = aL

\* ProtectShadowPage
ProtectShadowPage(pages, addr, NumPPage) == pages \cup PagesFrom(addr, NumPPage)

\* UnprotectShadowPage
UnprotectShadowPage(pages, addr, NumPPage) == pages \ PagesFrom(addr, NumPPage)

poolfree_abort ==
  /\ aborted' = TRUE
  /\ UNCHANGED <<slabs, Ptr1, Ptr2, LargeArrays, Objects, meta, globalfreeID,
                 protected, sigbus, live, freed, lastOp>>

\* poolfree from the computation of NumPPage on: len and debugmetadataptr are
\* what adl_splay_retrieve left in the two locals.  flagsOk resolves the reads
\* freeElement makes of the node flags of a single-array slab, which
\* createSingleArray never initialises: the call either returns or fails an
\* assertion.
poolfree_body(Node, len, debugmetadataptr, flagsOk) ==
  LET offset   == PageOffset(Node)
      NumPPage == NumPPageOf(len, offset)
      Canon    == meta[debugmetadataptr].canonAddr
      found    == SearchForContainingSlab(Canon)
  IN IF found.PS = 0 \/ found.Idx = -2 THEN poolfree_abort
     ELSE LET PS  == slabs[found.PS]
              res == IF PS.isSingleArray THEN AllocRes(PS, found.Idx, ~flagsOk)
                     ELSE freeElement(PS, found.Idx)
          IN IF res.af THEN poolfree_abort
             ELSE /\ globalfreeID' = globalfreeID + 1
                  /\ meta' = [meta EXCEPT ![debugmetadataptr] =
                                updatePtrMetaData(@, globalfreeID + 1)]
                  /\ Objects' = poolfree_unregister(Objects, Node)
                  /\ slabs' = [slabs EXCEPT ![found.PS] = res.s]
                  /\ poolfree_relink(found.PS)
                  /\ protected' = ProtectShadowPage(protected, Node, NumPPage)
                  /\ sigbus' = "bus_error_handler"
                  /\ live' = {o \in live : o.start # Node}
                  /\ freed' = freed \cup {[start |-> o.start, len |-> o.len,
                                           tag |-> o.tag,
                                           freeEpoch |-> globalfreeID + 1] :
                                          o \in {x \in live : x.start = Node}}
                  /\ lastOp' = [op |-> "poolfree", arg |-> Node, ret |-> 0]
                  /\ aborted' = aborted

\* poolfree(Pool, Node) of a pointer the registry holds.
poolfree(Node, flagsOk) ==
  /\ ~aborted
  /\ \E e \in splay_find(Objects, Node) : poolfree_body(Node, e.len, e.tag, flagsOk)
  /\ UNCHANGED <<nextPage, nextShadow, DPTree, globalallocID, lastAccess, APPLE,
                 released>>
  /\ UNCHANGED <<checkVars, sbVars, stackVars>>

\* poolfree(Pool, Node) of a pointer the registry does not hold.
\* adl_splay_retrieve fails and leaves its outputs alone: len keeps its
\* initial 1 and debugmetadataptr is read uninitialised.  garbage is what the
\* stack slot holds: null (the assertion fails) or a pointer to the
\* DebugMetaData of an earlier allocation, left there by an earlier call.
poolfree_unregistered(Node, garbage, flagsOk) ==
  /\ ~aborted
  /\ splay_find(Objects, Node) = {}
  /\ IF garbage = 0 THEN poolfree_abort
     ELSE poolfree_body(Node, 1, garbage, flagsOk)
  /\ UNCHANGED <<nextPage, nextShadow, DPTree, globalallocID, lastAccess, APPLE,
                 released>>
  /\ UNCHANGED <<checkVars, sbVars, stackVars>>

\* Pool->AllocadPool: poolinit sets it to -1 and no other statement that is
\* compiled assigns it.
AllocadPool == 0 - 1

SeqElems(list) == {list[i] : i \in 1..Len(list)}

\* pooldestroy(Pool).  adl_splay_delete_tag and the assertion behind it leave
\* the registry empty; PoolSlab::destroy gives the pages of a slab back.
pooldestroy ==
  /\ ~aborted
  /\ Objects' = {}
  /\ released' = IF AllocadPool # 0 THEN released
                 ELSE released \cup SeqElems(Ptr1) \cup SeqElems(Ptr2)
                               \cup SeqElems(LargeArrays)
  /\ lastOp' = [op |-> "pooldestroy", arg |-> 0, ret |-> 0]
  /\ UNCHANGED <<slabs, Ptr1, Ptr2, LargeArrays, nextPage, nextShadow, DPTree,
                 meta, globalallocID, globalfreeID, protected, sigbus,
                 lastAccess, live, freed, APPLE, aborted>>
  /\ UNCHANGED <<checkVars, sbVars, stackVars>>

(***************************************************************************)
(* Accesses through freed pointers and the SIGBUS handler.                 *)
(***************************************************************************)
NoReport == [kind |-> "none", allocgen |-> 0, freegen |-> 0]

\* ReportDanglingPointer(addr, pc, allocpc, allocgen, freepc, freegen)
ReportDanglingPointer(allocgen, freegen) ==
  [kind |-> "DanglingPointer", allocgen |-> allocgen, freegen |-> freegen]

\* bus_error_handler, entered for a fault at faultAddr.
bus_error_handler(faultAddr) ==
  IF splay_find(DPTree, faultAddr) = {}
  THEN /\ aborted' = TRUE
       /\ UNCHANGED <<protected, sigbus, lastAccess>>
  ELSE \E e \in splay_find(DPTree, faultAddr) :
         LET NumPPage == NumPPageOf(e.len, PageOffset(faultAddr))
         IN /\ protected' = UnprotectShadowPage(protected, faultAddr, NumPPage)
            /\ sigbus' = "bus_error_handler"
            /\ lastAccess' = [addr |-> faultAddr, faulted |-> TRUE,
                              report |->
                                ReportDanglingPointer(
                                  IF APPLE THEN meta[e.tag].allocID ELSE 0,
                                  IF APPLE THEN meta[e.tag].freeID ELSE 0)]
            /\ aborted' = aborted

\* A load or store of the program at addr.  A protected page faults and the
\* kernel delivers SIGBUS to the installed disposition; any other access
\* completes.
Access(addr) ==
  /\ ~aborted
  /\ IF PageOf(addr) \in protected
     THEN IF sigbus = "bus_error_handler"
          THEN bus_error_handler(addr)
          ELSE /\ aborted' = TRUE
               /\ UNCHANGED <<protected, sigbus, lastAccess>>
     ELSE /\ lastAccess' = [addr |-> addr, faulted |-> FALSE, report |-> NoReport]
          /\ UNCHANGED <<protected, sigbus, aborted>>
  /\ UNCHANGED <<slabs, Ptr1, Ptr2, LargeArrays, nextPage, nextShadow, Objects,
                 DPTree, meta, globalallocID, globalfreeID, live, freed, lastOp,
                 APPLE, released>>
  /\ UNCHANGED <<checkVars, sbVars, stackVars>>

(***************************************************************************)
(* The allocator specification: one pool after poolinit, then any sequence *)
(* of poolalloc, poolfree of allocated pointers, and accesses through      *)
(* pointers to freed objects.                                              *)
(***************************************************************************)
\* Largest request explored: one byte more than a slab holds, so that the
\* single-array path is taken.
MaxBytes == NodesPerSlab * NodeSize + 1

RangeOf(o) == o.start..(o.start + o.len - 1)

\* Request sizes explored: zero bytes, one node, two nodes, a whole slab
\* and a single array.
Requests == {0, 1, NodeSize + 1, NodesPerSlab * NodeSize, MaxBytes}

\* Addresses the program dereferences: the first and the last byte of
\* objects it has freed.
FreedAddrs == UNION {{f.start, f.start + f.len - 1} : f \in freed}

(***************************************************************************)
(* SoftBound+CETS: the two-level trie of pointer metadata and the lock     *)
(* cells of the temporal checks (runtime/SoftBoundRuntime/softboundcets.h, *)
(* built with __SOFTBOUNDCETS_TRIE and __SOFTBOUNDCETS_SPATIAL_TEMPORAL).  *)
(* Pointers are numbers and the null pointer is 0.                         *)
(***************************************************************************)
\* Number of pointer slots explored in the first secondary table.
MaxSlots == 3
\* Number of __softboundcets_memory_allocation calls explored.
MaxSBAllocs == 3

\* sizeof(void*) = sizeof(size_t) of the build.
WordBytes == WORDSIZE \div 8

\* __SOFTBOUNDCETS_LOWER_ZERO_POINTER_BITS: the low address bits that are zero
\* in the address of a pointer slot (2 when __WORDSIZE == 32, otherwise 3).
LOWER_ZERO_POINTER_BITS == IF WORDSIZE = 32 THEN 2 ELSE 3

\* Addresses of pointer slots: consecutive pointer-aligned words, and one
\* word that falls under another entry of the primary table.
SlotAddrs ==
  {i * 2^LOWER_ZERO_POINTER_BITS : i \in 1..MaxSlots} \cup {2^25 + 2^LOWER_ZERO_POINTER_BITS}

\* primary_index = (ptr >> 25)
primary_index(ptr) == ptr \div 2^25

\* secondary_index = ((ptr >> 3) & 0x3fffff); the mask keeps the low 22 bits.
secondary_index(ptr) == (ptr \div 2^3) % 2^22

\* The last word under the first entry of the primary table and the first
\* word under the second.
BoundaryAddrs == {2^25 - 8, 2^25}

\* The words whose entries the model of the trie keeps.
TrieAddrs == SlotAddrs \cup BoundaryAddrs

PrimaryIndexes == {primary_index(a) : a \in TrieAddrs}
SecondaryIndexes == {secondary_index(a) : a \in TrieAddrs}

\* A __softboundcets_trie_entry_t with all fields zero.
ZeroEntry == [base |-> 0, bound |-> 0, key |-> 0, lock |-> 0]

\* A null entry of the primary table.
NullTable == <<>>

\* __softboundcets_trie_allocate(): a secondary table mapped from anonymous
\* memory, hence zero-filled.  Only the entries of TrieAddrs are kept.
trie_allocate == [i \in SecondaryIndexes |-> ZeroEntry]

\* The first key __softboundcets_memory_allocation hands out: 0 is the content
\* of a zeroed lock and 1 is the key of __softboundcets_global_lock.
FirstKey == 2

\* __softboundcets_temporal_space_begin: where the lock cells start.
LockSpaceBegin == 64

\* The SoftBound+CETS state after __softboundcets_init, given WORDSIZE.
\* Fields of the metadata of one pointer on the shadow stack.
METADATA_NUM_FIELDS == 4
BASE_INDEX == 0
BOUND_INDEX == 1
KEY_INDEX == 2
LOCK_INDEX == 3

\* Pointer arguments of a call and depth of the calls followed.
MaxArgs == 1
MaxDepth == 2

\* Words of the shadow stack the runs can reach.
ShadowWords == (MaxDepth + 2) * (2 + MaxArgs * METADATA_NUM_FIELDS)

\* The shadow stack after __softboundcets_init: the pointer at the first
\* word of the mapping, the two size words of the outermost frame zero.
InitShadowStack ==
  /\ shadow_stack_ptr = 0
  /\ shadow_stack = [w \in 0..(ShadowWords - 1) |-> 0]
  /\ frames = <<>>

InitSoftBound ==
  /\ InitShadowStack
  /\ trie_primary_table = [p \in PrimaryIndexes |-> NullTable]
  /\ key_id_counter = FirstKey
  /\ lock_next_location = 0
  /\ lock_new_location = LockSpaceBegin
  /\ lockMem = <<>>
  /\ free_map_table = <<>>
  /\ sbLive = {}
  /\ sbFreed = {}
  /\ fmPairs = {}
  /\ stored = [a \in SlotAddrs |-> [set |-> FALSE, m |-> ZeroEntry]]
  /\ lastSB = [fn |-> "none", addr |-> 0, lock |-> 0, key |-> 0,
               ret |-> ZeroEntry, failed |-> FALSE, size |-> 0, from |-> 0]

\* The pool right after poolinit.
InitPool ==
  /\ slabs = <<>>
  /\ Ptr1 = <<>>
  /\ Ptr2 = <<>>
  /\ LargeArrays = <<>>
  /\ released = {}
  /\ nextPage = 1
  /\ nextShadow = 0
  /\ DPTree = {}
  /\ meta = <<>>
  /\ globalallocID = 0
  /\ globalfreeID = 0
  /\ protected = {}
  /\ sigbus = "SIG_DFL"
  /\ StackSlabs = <<>>
  /\ FreeStackSlabs = <<>>
  /\ allocas = {}
  /\ lastAccess = [addr |-> 0, faulted |-> FALSE, report |-> NoReport]
  /\ live = {}
  /\ freed = {}
  /\ lastOp = [op |-> "poolinit", arg |-> 0, ret |-> 0]

\* The rewriter before its first call, under the default configuration.
InitRewriter ==
  /\ invalidptr = 0
  /\ OOB = {}
  /\ OOBPool = {}
  /\ RewrittenObjs = {}
  /\ issuedFor = {}
  /\ lastCall = [fn |-> "none", pool |-> "Pool", src |-> 0, dst |-> 0,
                 found |-> FALSE, ObjStart |-> 0, ObjLen |-> 0, ret |-> 0,
                 reports |-> 0, rw |-> FALSE, kind |-> "none", epoch |-> 0]

InitAlloc ==
  /\ InitPool
  /\ APPLE \in BOOLEAN
  /\ WORDSIZE = 64
  /\ InitSoftBound
  /\ Objects = {}
  /\ aborted = FALSE
  /\ InitRewriter
  /\ runtime = "SafePoolAllocator"
  /\ StrictIndexing = FALSE
  /\ TrackExternalMallocs = FALSE
  /\ ExternalObjects = {}
  /\ InvalidLower = 0

NextAlloc ==
  \/ \E NumBytes \in Requests : poolalloc(NumBytes)
  \/ \E o \in live, flagsOk \in BOOLEAN : poolfree(o.start, flagsOk)
  \/ \E addr \in FreedAddrs : Access(addr)

SpecAlloc == InitAlloc /\ [][NextAlloc]_vars

(***************************************************************************)
(* Properties of the allocator, the registry and the dangling detector.    *)
(***************************************************************************)
EntryOf(o) == [start |-> o.start, len |-> o.len, tag |-> o.tag]

\* C1: after any sequence of poolalloc and poolfree of allocated pointers,
\* the pool's registry holds exactly one entry per live object and none for a
\* freed object, and the lookup of every address in [base, base+len) of a
\* live object yields that object's entry.
C1_RegistryMatchesLive ==
  /\ Cardinality(Objects) = Cardinality(live)
  /\ \A o \in live : \A a \in RangeOf(o) : splay_find(Objects, a) = {EntryOf(o)}
  /\ \A f \in freed : \A e \in Objects : e.tag # f.tag /\ e.start # f.start

\* An object was freed, another allocated afterwards, and two are live.
C1_Witness ==
  /\ lastOp.op = "poolalloc"
  /\ freed # {}
  /\ Cardinality(live) >= 2
  /\ ~aborted

\* The nodes of its slab a live object occupies.
NodesOf(o) == {<<o.slab, i>> : i \in o.idx..(o.idx + o.n - 1)}

\* The canonical bytes a live object occupies.
CanonRange(o) ==
  meta[o.tag].canonAddr..(meta[o.tag].canonAddr + o.n * NodeSize - 1)

\* C8: the nodes, the canonical bytes and the returned address ranges of two
\* live objects never overlap, nor do two registry entries; the nodes of a
\* live object are marked allocated, so neither allocateSingle nor
\* allocateMultiple hands them out again; a zero-byte request is given a
\* node of its own.
C8_LiveObjectsDisjoint ==
  /\ \A o1, o2 \in live :
       o1 # o2 => /\ NodesOf(o1) \cap NodesOf(o2) = {}
                  /\ CanonRange(o1) \cap CanonRange(o2) = {}
                  /\ RangeOf(o1) \cap RangeOf(o2) = {}
  /\ \A e1, e2 \in Objects : e1 # e2 => RangeOf(e1) \cap RangeOf(e2) = {}
  /\ \A o \in live :
       ~slabs[o.slab].isSingleArray =>
          \A i \in o.idx..(o.idx + o.n - 1) : isNodeAllocated(slabs[o.slab], i)
  /\ (lastOp.op = "poolalloc" /\ lastOp.arg = 0) =>
        \E o \in live : o.start = lastOp.ret /\ o.n = 1 /\ o.len = 1

\* A zero-byte request was served from a slab that holds another live
\* object, after an earlier object had been freed.
C8_Witness ==
  /\ lastOp.op = "poolalloc"
  /\ lastOp.arg = 0
  /\ freed # {}
  /\ \E o1, o2 \in live : o1 # o2 /\ o1.slab = o2.slab /\ o1.start = lastOp.ret
  /\ ~aborted

\* The pages the bytes of an object lie on.
PagesOfObject(o) == PageOf(o.start)..PageOf(o.start + o.len - 1)

\* C2 as stated: every access through the address of a freed object, the
\* first and each one after it, is reported as a dangling pointer; none
\* completes without a report.
C2_EveryAccessReported ==
  lastAccess.addr # 0 => lastAccess.report.kind = "DanglingPointer"

\* A step of poolfree: the objects it moves to the freed set lie on
\* protected pages and bus_error_handler is the SIGBUS disposition.
C2_FreeProtects ==
  \A f \in freed' \ freed :
     /\ PagesOfObject(f) \subseteq protected'
     /\ sigbus' = "bus_error_handler"

\* A step that accesses a freed object: it is reported as a dangling pointer
\* exactly when the page is protected at the time of the access, and the
\* handler leaves that page unprotected.
C2_AccessReportedIffProtected ==
  (lastAccess' # lastAccess) =>
     IF PageOf(lastAccess'.addr) \in protected
     THEN /\ lastAccess'.faulted
          /\ lastAccess'.report.kind = "DanglingPointer"
          /\ PageOf(lastAccess'.addr) \notin protected'
     ELSE /\ ~lastAccess'.faulted
          /\ lastAccess'.report.kind = "none"

\* C2, amended: poolfree leaves the pages of the freed object protected with
\* the handler installed; an access through the freed pointer is reported as
\* a dangling pointer if and only if its page is still protected; the handler
\* unprotects the page, so an access after a reported one completes without
\* a report.
C2_ReportedWhileProtected ==
  [][C2_FreeProtects /\ C2_AccessReportedIffProtected]_vars

\* An access to a freed object faulted and was reported.
C2_Witness ==
  /\ lastAccess.faulted
  /\ lastAccess.report.kind = "DanglingPointer"
  /\ \E f \in freed : lastAccess.addr \in RangeOf(f)
  /\ PageOf(lastAccess.addr) \notin protected
  /\ ~aborted

(***************************************************************************)
(* The out-of-bounds pointer rewriter.                                     *)
(***************************************************************************)
\* Width of an address in bits (unsigned), scaled down.
AddrBits == 5

AddrSpace == 2 ^ AddrBits

\* invalidsize of pool_init_runtime: bytes reserved for rewritten pointers.
invalidsize == 3

\* Size of the first page of memory (the 4096 of boundscheck_check).
NullPageSize == 2

\* The null pool handle.
NULL == "NULL"

\* pool_init_runtime: InvalidUpper = Addr + invalidsize
InvalidUpper == InvalidLower + invalidsize

RECURSIVE BitAnd(_, _)
BitAnd(a, b) ==
  IF a = 0 \/ b = 0 THEN 0
  ELSE (a % 2) * (b % 2) + 2 * BitAnd(a \div 2, b \div 2)

\* ~a on an unsigned of AddrBits bits
BitNot(a) == AddrSpace - 1 - (a % AddrSpace)

\* isRewritePtr
isRewritePtr(ptr) == InvalidLower < ptr /\ ptr < InvalidUpper

\* rewrite_ptr(Pool, p) of the SafePoolAllocator run-time: the value returned
\* and the rewriter state afterwards.
rewrite_ptr(Pool, p) ==
  LET P == (IF invalidptr = 0 THEN InvalidLower ELSE invalidptr) + 1
  IN IF P = InvalidUpper
     THEN [ret |-> p, invalidptr |-> P, OOB |-> OOB, OOBPool |-> OOBPool,
           RewrittenObjs |-> RewrittenObjs, died |-> FALSE]
     ELSE IF Pool = NULL
     THEN [ret |-> P, invalidptr |-> P, OOB |-> OOB,
           OOBPool |-> adl_splay_insert(OOBPool, P, 1, p),
           RewrittenObjs |-> RewrittenObjs, died |-> FALSE]
     ELSE [ret |-> P, invalidptr |-> P,
           OOB |-> adl_splay_insert(OOB, P, 1, p), OOBPool |-> OOBPool,
           RewrittenObjs |-> RewrittenObjs, died |-> FALSE]

\* pchk_getActualValue(Pool, src) of the SafePoolAllocator run-time.  With a
\* null Pool the lookup dereferences the null handle and the process dies.
pchk_getActualValue(Pool, src) ==
  IF src <= InvalidLower THEN [ret |-> src, died |-> FALSE]
  ELSE IF BitAnd(src, BitNot(InvalidUpper - 1)) # 0 THEN [ret |-> src, died |-> FALSE]
  ELSE IF Pool = NULL THEN [ret |-> 0, died |-> TRUE]
  ELSE IF splay_find(OOB, src) # {}
       THEN [ret |-> (CHOOSE e \in splay_find(OOB, src) : TRUE).tag, died |-> FALSE]
       ELSE [ret |-> 0, died |-> TRUE]

\* rewrite_ptr(Pool, p, ObjStart, ObjEnd, ...) of the debug run-time: the next
\* address of the reserved range, recorded with the original value and the
\* bounds of the object; running out of addresses is fatal.
rewrite_ptr_debug(p, ObjStart, ObjEnd) ==
  LET P == (IF invalidptr = 0 THEN InvalidLower ELSE invalidptr) + 1
  IN IF P >= InvalidUpper
     THEN [ret |-> 0, invalidptr |-> invalidptr, OOB |-> OOB, OOBPool |-> OOBPool,
           RewrittenObjs |-> RewrittenObjs, died |-> TRUE]
     ELSE [ret |-> P, invalidptr |-> P,
           OOB |-> adl_splay_insert(OOB, P, 1, p), OOBPool |-> OOBPool,
           RewrittenObjs |-> RewrittenObjs \cup
                             {[ptr |-> P, first |-> ObjStart, second |-> ObjEnd]},
           died |-> FALSE]

\* pchk_getActualValue of the debug run-time: the original value of a
\* rewritten pointer; a value that was never issued is fatal.
pchk_getActualValue_debug(src) ==
  IF isRewritePtr(src) /\ splay_find(OOB, src) # {}
  THEN [ret |-> (CHOOSE e \in splay_find(OOB, src) : TRUE).tag, died |-> FALSE]
  ELSE [ret |-> 0, died |-> TRUE]

\* RewrittenObjs[Source]: std::map::operator[] yields (0, 0) for a new key.
RewrittenObjsAt(Source) ==
  IF \E r \in RewrittenObjs : r.ptr = Source
  THEN CHOOSE r \in RewrittenObjs : r.ptr = Source
  ELSE [ptr |-> Source, first |-> 0, second |-> 0]

(***************************************************************************)
(* The bounds checks.  A check yields what it returns and how many         *)
(* violation reports it emits, or the pointer it hands to the rewriter     *)
(* together with the bounds it passes along.                               *)
(***************************************************************************)
Return(val, n) ==
  [kind |-> "return", val |-> val, first |-> 0, second |-> 0, reports |-> n]

Rewrite(val, lo, hi, n) ==
  [kind |-> "rewrite", val |-> val, first |-> lo, second |-> hi, reports |-> n]

Died == [kind |-> "died", val |-> 0, first |-> 0, second |-> 0, reports |-> 0]

\* Lookup of an address in a registry: found, first byte and length.
Lookup(tree, a) ==
  IF splay_find(tree, a) = {} THEN [found |-> FALSE, start |-> a, len |-> 0]
  ELSE LET e == CHOOSE x \in splay_find(tree, a) : TRUE
       IN [found |-> TRUE, start |-> e.start, len |-> e.len]

\* boundscheck_lookup (both run-times): the object of the pool Source is in.
boundscheck_lookup(Source) == Lookup(Objects, Source)

\* DebugRuntime boundscheck_check, the external objects and the end; n is
\* the number of reports emitted before control got here.
debug_external(Source, Dest, CanFail, n) ==
  LET x   == Lookup(ExternalObjects, Source)
      end == x.start + x.len - 1
  IN IF x.found THEN
       IF x.start <= Dest /\ Dest <= end THEN Return(Dest, n)
       ELSE IF StrictIndexing = FALSE \/ Dest = end + 1
            THEN Rewrite(Dest, x.start, end, n)
            ELSE Return(Dest, n + 1 + (IF CanFail THEN 1 ELSE 0))
     ELSE Return(Dest, n + (IF CanFail THEN 1 ELSE 0))

\* DebugRuntime boundscheck_check from the test of `found` on.
debug_check_found(found, ObjStart, ObjEnd, Source, Dest, CanFail) ==
  IF found THEN
    IF StrictIndexing = FALSE \/ Dest = ObjEnd + 1
    THEN Rewrite(Dest, ObjStart, ObjEnd, 0)
    ELSE Return(Dest, 1)
  ELSE IF Source < NullPageSize THEN
    IF Dest < NullPageSize THEN Return(Dest, 0)
    ELSE IF StrictIndexing = FALSE \/ Dest = NullPageSize
         THEN Rewrite(Dest, 0, NullPageSize, 0)
         ELSE debug_external(Source, Dest, CanFail, 1)
  ELSE debug_external(Source, Dest, CanFail, 0)

\* DebugRuntime boundscheck_check
debug_boundscheck_check(found, ObjStart, ObjEnd, Source, Dest, CanFail) ==
  IF isRewritePtr(Source) THEN
    LET act == pchk_getActualValue_debug(Source)
        RealDest == (act.ret + Dest + AddrSpace - Source) % AddrSpace
        b == RewrittenObjsAt(Source)
    IN IF act.died THEN Died
       ELSE IF b.first <= RealDest /\ RealDest <= b.second THEN Return(RealDest, 0)
       ELSE debug_check_found(TRUE, b.first, b.second, act.ret, RealDest, CanFail)
  ELSE debug_check_found(found, ObjStart, ObjEnd, Source, Dest, CanFail)

\* A faulty fast path that accepts the address one past the last byte.
debug_result_inclusive(Source, Dest, CanFail) ==
  LET l      == boundscheck_lookup(Source)
      ObjEnd == l.start + l.len - 1
  IN IF l.found /\ l.start <= Dest /\ Dest <= ObjEnd + 1 THEN Return(Dest, 0)
     ELSE debug_boundscheck_check(l.found, l.start, ObjEnd, Source, Dest, CanFail)

\* boundscheck_debug (CanFail) and boundscheckui_debug (~CanFail)
debug_result(Source, Dest, CanFail) ==
  LET l      == boundscheck_lookup(Source)
      ObjEnd == l.start + l.len - 1
  IN IF l.found /\ l.start <= Dest /\ Dest <= ObjEnd THEN Return(Dest, 0)
     ELSE debug_boundscheck_check(l.found, l.start, ObjEnd, Source, Dest, CanFail)

\* SafePoolAllocator boundscheck_check, the external objects and the end; n
\* is the number of reports emitted before control got here.
spa_external(Source, Dest, CanFail, n) ==
  LET x == Lookup(ExternalObjects, Source)
  IN IF TrackExternalMallocs /\ x.found THEN
       IF x.start <= Dest /\ x.start + x.len > Dest THEN Return(Dest, n)
       ELSE Return(Dest, n + 1 + (IF CanFail THEN 1 ELSE 0))
     ELSE Return(Dest, n + (IF CanFail THEN 1 ELSE 0))

\* A faulty boundscheck_check that reports every out-of-bounds result under
\* strict indexing, the one past the end included.
boundscheck_check_strict(ObjStart, ObjLen, Source, Dest, CanFail) ==
  IF ObjLen # 0 THEN
    IF StrictIndexing = FALSE
    THEN Rewrite(Dest, ObjStart, ObjStart + ObjLen - 1, 0)
    ELSE Return(Dest, 1)
  ELSE spa_external(Source, Dest, CanFail, 0)

\* SafePoolAllocator boundscheck_check
boundscheck_check(ObjStart, ObjLen, Source, Dest, CanFail) ==
  IF ObjLen # 0 THEN
    IF StrictIndexing = FALSE \/ Dest = ObjStart + ObjLen
    THEN Rewrite(Dest, ObjStart, ObjStart + ObjLen - 1, 0)
    ELSE Return(Dest, 1)
  ELSE IF Source < NullPageSize THEN
    IF Dest < NullPageSize THEN Return(Dest, 0)
    ELSE IF StrictIndexing = FALSE THEN Rewrite(Dest, 0, NullPageSize, 0)
    ELSE spa_external(Source, Dest, CanFail, 1)
  ELSE spa_external(Source, Dest, CanFail, 0)

\* A faulty boundscheck that takes the first byte of the object for outside.
spa_result_exclusive(Source, Dest, CanFail) ==
  LET l == boundscheck_lookup(Source)
  IN IF l.len # 0 /\ l.start < Dest /\ l.start + l.len > Dest THEN Return(Dest, 0)
     ELSE boundscheck_check(l.start, l.len, Source, Dest, CanFail)

\* SafePoolAllocator boundscheck (CanFail) and boundscheckui (~CanFail)
spa_result(Source, Dest, CanFail) ==
  LET l == boundscheck_lookup(Source)
  IN IF l.len # 0 /\ l.start <= Dest /\ l.start + l.len > Dest THEN Return(Dest, 0)
     ELSE boundscheck_check(l.start, l.len, Source, Dest, CanFail)

(***************************************************************************)
(* The checks as operations of the program.                                *)
(***************************************************************************)
\* The record of a call: its arguments, the lookup of Source in the pool's
\* registry, the value returned, the number of reports emitted, whether the
\* pointer was handed to the rewriter, the kind of the report and the number
\* of poolfree calls that came before it.
Call(fn, pool, src, dst, l, ret, n, rw) ==
  [fn |-> fn, pool |-> pool, src |-> src, dst |-> dst, found |-> l.found,
   ObjStart |-> l.start, ObjLen |-> l.len, ret |-> ret, reports |-> n, rw |-> rw,
   kind |-> "none", epoch |-> globalfreeID]

NoLookup == [found |-> FALSE, start |-> 0, len |-> 0]

\* The rewriter left alone.
NoRewrite(val) ==
  [ret |-> val, invalidptr |-> invalidptr, OOB |-> OOB, OOBPool |-> OOBPool,
   RewrittenObjs |-> RewrittenObjs, died |-> FALSE]

SetRewriter(w) ==
  /\ invalidptr' = w.invalidptr
  /\ OOB' = w.OOB
  /\ OOBPool' = w.OOBPool
  /\ RewrittenObjs' = w.RewrittenObjs

\* What a check rewrote res.val to ptr for: the out-of-bounds value, the
\* bounds the check went by, and whether these are the bounds of an object
\* of a registry (and not those of the first page).
IssuedBy(Source, ptr, res) ==
  [ptr |-> ptr, q |-> res.val, first |-> res.first, second |-> res.second,
   obj |-> \/ \E o \in Objects \cup ExternalObjects :
                 o.start = res.first /\ o.start + o.len - 1 = res.second
           \/ \E r \in issuedFor : r.ptr = Source /\ r.obj]

\* A check call with result res; a pointer to rewrite goes to the rewriter of
\* the run-time in use.
CheckCall(fn, Source, Dest, res) ==
  LET w == IF res.kind # "rewrite" THEN NoRewrite(res.val)
           ELSE IF runtime = "DebugRuntime"
                THEN rewrite_ptr_debug(res.val, res.first, res.second)
                ELSE rewrite_ptr("Pool", res.val)
  IN /\ ~aborted
     /\ res.kind = "rewrite" => (invalidptr = 0 \/ invalidptr < InvalidUpper)
     /\ SetRewriter(w)
     /\ issuedFor' = IF res.kind = "rewrite" /\ ~w.died /\ w.ret # res.val
                     THEN issuedFor \cup {IssuedBy(Source, w.ret, res)}
                     ELSE issuedFor
     /\ aborted' = (res.kind = "died" \/ w.died)
     /\ lastCall' = Call(fn, "Pool", Source, Dest, boundscheck_lookup(Source),
                         w.ret, res.reports, res.kind = "rewrite")
     /\ UNCHANGED <<stackVars, sbVars, poolVars, Objects, runtime, StrictIndexing,
                    TrackExternalMallocs, ExternalObjects, InvalidLower>>

boundscheck_debug(Source, Dest) ==
  /\ runtime = "DebugRuntime"
  /\ CheckCall("boundscheck_debug", Source, Dest, debug_result(Source, Dest, TRUE))

boundscheckui_debug(Source, Dest) ==
  /\ runtime = "DebugRuntime"
  /\ CheckCall("boundscheckui_debug", Source, Dest, debug_result(Source, Dest, FALSE))

boundscheck(Source, Dest) ==
  /\ runtime = "SafePoolAllocator"
  /\ CheckCall("boundscheck", Source, Dest, spa_result(Source, Dest, TRUE))

boundscheckui(Source, Dest) ==
  /\ runtime = "SafePoolAllocator"
  /\ CheckCall("boundscheckui", Source, Dest, spa_result(Source, Dest, FALSE))

\* poolregister(Pool, allocaptr, NumBytes)
poolregister(allocaptr, NumBytes) ==
  /\ ~aborted
  /\ Objects' = adl_splay_insert(Objects, allocaptr, NumBytes, 0)
  /\ lastCall' = Call("poolregister", "Pool", allocaptr, NumBytes, NoLookup, 0, 0, FALSE)
  /\ UNCHANGED <<stackVars, sbVars, poolVars, aborted, runtime, StrictIndexing, TrackExternalMallocs,
                 ExternalObjects, InvalidLower, invalidptr, OOB, OOBPool,
                 RewrittenObjs, issuedFor>>

\* poolunregister(Pool, allocaptr)
poolunregister(allocaptr) ==
  /\ ~aborted
  /\ Objects' = adl_splay_delete(Objects, allocaptr)
  /\ lastCall' = Call("poolunregister", "Pool", allocaptr, 0, NoLookup, 0, 0, FALSE)
  /\ UNCHANGED <<stackVars, sbVars, poolVars, aborted, runtime, StrictIndexing, TrackExternalMallocs,
                 ExternalObjects, InvalidLower, invalidptr, OOB, OOBPool,
                 RewrittenObjs, issuedFor>>

(***************************************************************************)
(* The specification of the checks: a pool, an address of the reserved     *)
(* range chosen by mmap, a configuration; then registrations and checks.   *)
(***************************************************************************)
\* The object the program registers with the pool: [ObjBase, ObjBase+ObjSize).
ObjBase == 4

ObjSize == 2

\* The object registered outside the pools.
ExternObj == [start |-> 9, len |-> 2, tag |-> 0]

\* Addresses mmap may return for the reserved range.
InvalidLowerChoices == {13, 18}

\* Source pointers of the checks: in the first page, the base of the pool's
\* object, inside the external object, and the rewritten pointers issued.
Sources ==
  {1, ObjBase, ObjBase + ObjSize - 1, ExternObj.start} \cup {e.start : e \in OOB}

\* Result pointers: in the first page, one past it, the last byte of the
\* pool's object, one past its end, beyond it, one past the end of the
\* external object.
Dests ==
  {1, NullPageSize, ObjBase + ObjSize - 1, ObjBase + ObjSize,
   ObjBase + ObjSize + 1, ExternObj.start + ExternObj.len}

\* Result pointers of an index off Source: those above and Source itself
\* and, for a rewritten Source, the pointer itself and the one before it.
DestsOf(Source) ==
  IF Source \in {e.start : e \in OOB} THEN {Source, Source - 1}
  ELSE Dests \cup {Source}

InitConfig ==
  /\ runtime \in {"DebugRuntime", "SafePoolAllocator"}
  /\ StrictIndexing \in BOOLEAN
  /\ TrackExternalMallocs \in BOOLEAN
  /\ ExternalObjects = {ExternObj}
  /\ InvalidLower \in InvalidLowerChoices

InitCheck ==
  /\ InitPool
  /\ APPLE = FALSE
  /\ WORDSIZE = 64
  /\ InitSoftBound
  /\ Objects = {}
  /\ aborted = FALSE
  /\ InitRewriter
  /\ InitConfig

NextCheck ==
  \/ poolregister(ObjBase, ObjSize)
  \/ poolunregister(ObjBase)
  \/ \E Source \in Sources : \E Dest \in DestsOf(Source) : boundscheck_debug(Source, Dest)
  \/ \E Source \in Sources : \E Dest \in DestsOf(Source) : boundscheckui_debug(Source, Dest)
  \/ \E Source \in Sources : \E Dest \in DestsOf(Source) : boundscheck(Source, Dest)
  \/ \E Source \in Sources : \E Dest \in DestsOf(Source) : boundscheckui(Source, Dest)

SpecCheck == InitCheck /\ [][NextCheck]_vars

(***************************************************************************)
(* The rewriter called directly: exactcheck2 rewrites with a null pool,    *)
(* instrumented code unrewrites before it compares pointers.               *)
(***************************************************************************)
\* Calls of rewrite_ptr followed after the cursor has reached InvalidUpper.
MaxOverrun == 1

\* A call of rewrite_ptr(Pool, p).
call_rewrite_ptr(Pool, p) ==
  LET w == rewrite_ptr(Pool, p)
  IN /\ ~aborted
     /\ invalidptr = 0 \/ invalidptr < InvalidUpper + MaxOverrun
     /\ SetRewriter(w)
     /\ issuedFor' = issuedFor
     /\ lastCall' = Call("rewrite_ptr", Pool, p, 0, NoLookup, w.ret, 0, TRUE)
     /\ UNCHANGED <<stackVars, sbVars, poolVars, Objects, aborted, runtime, StrictIndexing,
                    TrackExternalMallocs, ExternalObjects, InvalidLower>>

\* A call of pchk_getActualValue(Pool, src).
call_getActualValue(Pool, src) ==
  LET a == pchk_getActualValue(Pool, src)
  IN /\ ~aborted
     /\ aborted' = a.died
     /\ lastCall' = Call("pchk_getActualValue", Pool, src, 0, NoLookup, a.ret, 0, FALSE)
     /\ UNCHANGED <<stackVars, sbVars, poolVars, Objects, runtime, StrictIndexing,
                    TrackExternalMallocs, ExternalObjects, InvalidLower,
                    invalidptr, OOB, OOBPool, RewrittenObjs, issuedFor>>

Pools == {NULL, "Pool"}

\* Out-of-bounds values handed to the rewriter.
OOBValues == {ObjBase + ObjSize, ObjBase + ObjSize + 1}

\* The rewritten pointers recorded for a pool handle.
Recorded(Pool) == IF Pool = NULL THEN OOBPool ELSE OOB

\* Values the program unrewrites: rewritten pointers it was given, ordinary
\* pointers, and the first address of the reserved range, issued or not.
Unrewritten == {e.start : e \in OOB \cup OOBPool} \cup OOBValues \cup {InvalidLower + 1}

InitOOB ==
  /\ InitPool
  /\ APPLE = FALSE
  /\ WORDSIZE = 64
  /\ InitSoftBound
  /\ Objects = {}
  /\ aborted = FALSE
  /\ InitRewriter
  /\ runtime = "SafePoolAllocator"
  /\ StrictIndexing \in BOOLEAN
  /\ TrackExternalMallocs = FALSE
  /\ ExternalObjects = {}
  /\ InvalidLower \in InvalidLowerChoices

NextOOB ==
  \/ \E Pool \in Pools, p \in OOBValues : call_rewrite_ptr(Pool, p)
  \/ \E Pool \in Pools, src \in Unrewritten : call_getActualValue(Pool, src)

SpecOOB == InitOOB /\ [][NextOOB]_vars

(***************************************************************************)
(* Properties of the bounds checks and of the rewriter.                    *)
(***************************************************************************)
CheckFns == {"boundscheck_debug", "boundscheckui_debug", "boundscheck", "boundscheckui"}

\* The last call was a check whose Source lies in a registered object.
CheckedInObject == lastCall.fn \in CheckFns /\ lastCall.found

\* The last call indexed from the base of a registered object [B, B+N) to
\* B+N.
OnePastEndCall ==
  /\ CheckedInObject
  /\ lastCall.src = lastCall.ObjStart
  /\ lastCall.dst = lastCall.ObjStart + lastCall.ObjLen

\* v is a rewritten pointer recorded for original value p.
IsSentinelFor(v, p) ==
  /\ isRewritePtr(v)
  /\ [start |-> v, len |-> 1, tag |-> p] \in OOB

\* C4 as stated: for a registered object [B, B+N), checkIndex(pool, B, B+N)
\* returns a sentinel without a report when strict indexing is disabled and
\* is a reported violation when strict indexing is enabled.
C4_OnePastEndByStrictness ==
  (OnePastEndCall /\ ~aborted) =>
     IF StrictIndexing = FALSE
     THEN lastCall.reports = 0 /\ IsSentinelFor(lastCall.ret, lastCall.dst)
     ELSE lastCall.reports >= 1

\* C4, amended: checkIndex(pool, B, B+N) emits no report whether strict
\* indexing is disabled or enabled; B+N is handed to the rewriter and the
\* rewriter's value is returned, a newly recorded sentinel while the reserved
\* range has addresses left.
C4_OnePastEndTolerated ==
  OnePastEndCall =>
     /\ lastCall.reports = 0
     /\ lastCall.rw
     /\ ~aborted =>
          \/ lastCall.ret = invalidptr /\ IsSentinelFor(lastCall.ret, lastCall.dst)
          \/ invalidptr = InvalidUpper /\ lastCall.ret = lastCall.dst

\* Under strict indexing a check from B to B+N returned a sentinel.
C4_Witness ==
  /\ OnePastEndCall
  /\ StrictIndexing
  /\ IsSentinelFor(lastCall.ret, lastCall.dst)
  /\ lastCall.reports = 0
  /\ ~aborted

\* The check returned the result pointer unchanged, did not call the
\* rewriter and emitted no report.
Accepted ==
  lastCall.ret = lastCall.dst /\ ~lastCall.rw /\ lastCall.reports = 0 /\ ~aborted

\* C5 as stated: when Source is found as (objStart, objLen), the check
\* returns the result unchanged, without rewrite and without report, iff
\* objStart <= result <= objStart + objLen.
C5_AcceptInclusive ==
  CheckedInObject =>
     (Accepted <=> (/\ lastCall.ObjStart <= lastCall.dst
                    /\ lastCall.dst <= lastCall.ObjStart + lastCall.ObjLen))

\* C5, amended: when Source is found as (objStart, objLen), the check
\* returns the result unchanged, without calling the rewriter and without a
\* report, iff objStart <= result < objStart + objLen.
C5_AcceptInsideObject ==
  CheckedInObject =>
     (Accepted <=> (/\ lastCall.ObjStart <= lastCall.dst
                    /\ lastCall.dst < lastCall.ObjStart + lastCall.ObjLen))

\* A check from the base of an object to its last byte was accepted.
C5_Witness ==
  /\ CheckedInObject
  /\ lastCall.dst = lastCall.ObjStart + lastCall.ObjLen - 1
  /\ lastCall.src = lastCall.ObjStart
  /\ Accepted

\* The result pointer of the last check lies outside the object of Source.
ResultOutside ==
  \/ lastCall.dst < lastCall.ObjStart
  \/ lastCall.dst >= lastCall.ObjStart + lastCall.ObjLen

\* C9: when Source is found but the result is outside its object, the check
\* returns a sentinel without a report if strict indexing is disabled or the
\* result is exactly one past the end; otherwise it emits one out-of-bounds
\* report and returns the unchecked result.
C9_OutsideRewrittenOrReported ==
  (CheckedInObject /\ ResultOutside /\ ~aborted) =>
     IF (StrictIndexing = FALSE
         \/ lastCall.dst = lastCall.ObjStart + lastCall.ObjLen)
     THEN lastCall.reports = 0 /\ IsSentinelFor(lastCall.ret, lastCall.dst)
     ELSE lastCall.reports = 1 /\ lastCall.ret = lastCall.dst /\ ~lastCall.rw

\* Source lies in the pool's registry or in the registry of external objects.
InSomeRegistry(Source) ==
  Lookup(Objects, Source).found \/ Lookup(ExternalObjects, Source).found

\* C10: on the same arguments the complete and the incomplete variant return
\* the same pointer and rewrite alike; they differ only when Source is found
\* in no registry at all, where the complete variant emits its report and
\* the incomplete one emits nothing and returns the result unchanged.
C10_VariantsAgree ==
  (lastCall.fn \in {"boundscheck_debug", "boundscheckui_debug"}
   /\ ~isRewritePtr(lastCall.src) /\ ~aborted) =>
     LET c == debug_result(lastCall.src, lastCall.dst, TRUE)
         u == debug_result(lastCall.src, lastCall.dst, FALSE)
     IN /\ lastCall.reports =
             (IF lastCall.fn = "boundscheck_debug" THEN c ELSE u).reports
        /\ c.kind = u.kind
        /\ c.val = u.val
        /\ c.first = u.first /\ c.second = u.second
        /\ (c.reports # u.reports) =>
              /\ ~InSomeRegistry(lastCall.src)
              /\ c.reports = 1
              /\ u.reports = 0
              /\ u.kind = "return" /\ u.val = lastCall.dst

\* C6: for any pool handle, the null one included, unrewriting a pointer
\* that rewrite_ptr returned for that handle yields the original value, and
\* rewrite_ptr never returns a rewritten pointer that is still recorded.
C6_RoundTrip ==
  /\ (lastCall.fn = "pchk_getActualValue"
      /\ \E e \in Recorded(lastCall.pool) : e.start = lastCall.src) =>
        /\ ~aborted
        /\ \E e \in Recorded(lastCall.pool) :
              e.start = lastCall.src /\ e.tag = lastCall.ret
  /\ \A e1, e2 \in OOB \cup OOBPool : e1.start = e2.start => e1 = e2
  /\ Cardinality(OOB \cup OOBPool) =
        IF invalidptr = 0 THEN 0
        ELSE IF invalidptr = InvalidUpper THEN invalidsize - 1
        ELSE invalidptr - InvalidLower

(***************************************************************************)
(* SoftBound+CETS: metadata of pointer slots in the trie.                  *)
(***************************************************************************)
otherSBVars == <<poolVars, Objects, checkVars, stackVars>>

SBCall(fn, addr, lock, key, ret, failed) ==
  [fn |-> fn, addr |-> addr, lock |-> lock, key |-> key, ret |-> ret,
   failed |-> failed, size |-> 0, from |-> 0]

\* The trie after __softboundcets_metadata_store(addr_of_ptr, base, bound,
\* key, lock): the secondary table is allocated on first use and the entry
\* is overwritten.
trie_store(addr_of_ptr, base, bound, key, lock) ==
  LET primary == primary_index(addr_of_ptr)
      trie_secondary_table ==
        IF trie_primary_table[primary] = NullTable
          THEN trie_allocate
          ELSE trie_primary_table[primary]
      secondary == secondary_index(addr_of_ptr)
  IN [trie_primary_table EXCEPT ![primary] =
        [trie_secondary_table EXCEPT ![secondary] =
           [base |-> base, bound |-> bound, key |-> key, lock |-> lock]]]

\* What __softboundcets_metadata_load(addr_of_ptr, ...) writes to its outputs.
trie_load(addr_of_ptr) ==
  LET trie_secondary_table == trie_primary_table[primary_index(addr_of_ptr)]
  IN IF trie_secondary_table = NullTable
       THEN ZeroEntry
       ELSE trie_secondary_table[secondary_index(addr_of_ptr)]

\* __softboundcets_metadata_store
metadata_store(addr_of_ptr, base, bound, key, lock) ==
  /\ ~aborted
  /\ trie_primary_table' = trie_store(addr_of_ptr, base, bound, key, lock)
  /\ stored' = [stored EXCEPT ![addr_of_ptr] =
                  [set |-> TRUE,
                   m |-> [base |-> base, bound |-> bound, key |-> key,
                          lock |-> lock]]]
  /\ lastSB' = SBCall("metadata_store", addr_of_ptr, lock, key, ZeroEntry, FALSE)
  /\ UNCHANGED <<ssVars, fmPairs, WORDSIZE, key_id_counter, lock_next_location,
                 lock_new_location, lockMem, free_map_table, sbLive, sbFreed>>
  /\ UNCHANGED <<otherSBVars, aborted>>

\* __softboundcets_metadata_load
metadata_load(addr_of_ptr) ==
  /\ ~aborted
  /\ lastSB' = SBCall("metadata_load", addr_of_ptr, 0, 0, trie_load(addr_of_ptr), FALSE)
  /\ UNCHANGED <<ssVars, fmPairs, WORDSIZE, trie_primary_table, key_id_counter,
                 lock_next_location, lock_new_location, lockMem,
                 free_map_table, sbLive, sbFreed, stored>>
  /\ UNCHANGED <<otherSBVars, aborted>>

\* The metadata tuples the program stores.
Metas ==
  {[base |-> 4096, bound |-> 4104, key |-> FirstKey, lock |-> LockSpaceBegin],
   [base |-> 8192, bound |-> 8200, key |-> FirstKey + 1,
    lock |-> LockSpaceBegin + 8]}

InitSB ==
  /\ InitPool
  /\ APPLE = FALSE
  /\ Objects = {}
  /\ aborted = FALSE
  /\ InitRewriter
  /\ runtime = "SafePoolAllocator"
  /\ StrictIndexing = FALSE
  /\ TrackExternalMallocs = FALSE
  /\ ExternalObjects = {}
  /\ InvalidLower = 0
  /\ WORDSIZE \in {32, 64}
  /\ InitSoftBound

NextTrie ==
  \/ \E a \in SlotAddrs, m \in Metas :
        metadata_store(a, m.base, m.bound, m.key, m.lock)
  \/ \E a \in SlotAddrs : metadata_load(a)

SpecTrie == InitSB /\ [][NextTrie]_vars

\* C7: a __softboundcets_metadata_load of a pointer slot returns the tuple of
\* the last __softboundcets_metadata_store to that slot, and (0, 0, 0, 0) when
\* the slot was never stored to.
C7_StoreLoadRoundTrip ==
  lastSB.fn = "metadata_load" =>
    lastSB.ret = IF stored[lastSB.addr].set
                   THEN stored[lastSB.addr].m
                   ELSE ZeroEntry

(***************************************************************************)
(* SoftBound+CETS: keys and lock cells of heap allocations.                *)
(***************************************************************************)
\* __SOFTBOUNDCETS_N_FREE_MAP_ENTRIES
N_FREE_MAP_ENTRIES == 32 * 1024 * 1024

\* The tag in an entry of the free map; the table starts zeroed.
FreeMapTag(index) ==
  IF index \in DOMAIN free_map_table THEN free_map_table[index] ELSE 0

\* The probing loop of __softboundcets_add_to_free_map, from counter on: the
\* first entry with tag 0 or 2 takes the pointer.
RECURSIVE add_to_free_map_from(_, _, _)
add_to_free_map_from(ptr_key, ptr, counter) ==
  LET index == (ptr_key + counter) % N_FREE_MAP_ENTRIES
      tag == FreeMapTag(index)
  IN IF tag = 0 \/ tag = 2
       THEN [table |-> (index :> ptr) @@ free_map_table, died |-> FALSE]
       ELSE IF counter >= N_FREE_MAP_ENTRIES
              THEN [table |-> free_map_table, died |-> TRUE]
              ELSE add_to_free_map_from(ptr_key, ptr, counter + 1)

\* __softboundcets_add_to_free_map(ptr_key, ptr)
add_to_free_map(ptr_key, ptr) ==
  IF ptr = 0
    THEN [table |-> free_map_table, died |-> TRUE]
    ELSE add_to_free_map_from(ptr_key, ptr, 0)

\* __softboundcets_allocate_lock_location(): a never used cell when the free
\* list is empty, otherwise the head of the free list.
allocate_lock_location ==
  IF lock_next_location = 0
    THEN [ret |-> lock_new_location,
          lock_next_location |-> lock_next_location,
          lock_new_location |-> lock_new_location + WordBytes]
    ELSE [ret |-> lock_next_location,
          lock_next_location |-> lockMem[lock_next_location],
          lock_new_location |-> lock_new_location]

\* __softboundcets_memory_allocation(ptr, ptr_lock, ptr_key)
memory_allocation(ptr) ==
  LET temp_id == key_id_counter
      loc == allocate_lock_location
      fm == add_to_free_map(temp_id, ptr)
  IN /\ ~aborted
     /\ key_id_counter < FirstKey + MaxSBAllocs
     /\ key_id_counter' = key_id_counter + 1
     /\ lock_next_location' = loc.lock_next_location
     /\ lock_new_location' = loc.lock_new_location
     /\ lockMem' = (loc.ret :> temp_id) @@ lockMem
     /\ free_map_table' = fm.table
     /\ aborted' = fm.died
     /\ sbLive' = sbLive \cup {[key |-> temp_id, lock |-> loc.ret]}
     /\ fmPairs' = IF fm.died THEN fmPairs
                   ELSE fmPairs \cup {[key |-> temp_id, ptr |-> ptr]}
     /\ lastSB' = SBCall("memory_allocation", ptr, loc.ret, temp_id, ZeroEntry, FALSE)
     /\ UNCHANGED <<ssVars, WORDSIZE, trie_primary_table, sbFreed, stored>>
     /\ UNCHANGED otherSBVars

\* A mutation of memory_deallocation_writes: the lock cell keeps its key.
memory_deallocation_writes_none(ptr_lock) == lockMem

\* The writes of __softboundcets_memory_deallocation to the lock cell: it is
\* zeroed, then it receives the link to the rest of the free list.
memory_deallocation_writes(ptr_lock) ==
  LET zeroed == [lockMem EXCEPT ![ptr_lock] = 0]
  IN [zeroed EXCEPT ![ptr_lock] = lock_next_location]

\* __softboundcets_memory_deallocation(ptr_lock, ptr_key)
memory_deallocation(ptr_lock, ptr_key) ==
  /\ ~aborted
  /\ lockMem' = memory_deallocation_writes(ptr_lock)
  /\ lock_next_location' = ptr_lock
  /\ sbLive' = sbLive \ {[key |-> ptr_key, lock |-> ptr_lock]}
  /\ sbFreed' = sbFreed \cup {[key |-> ptr_key, lock |-> ptr_lock]}
  /\ lastSB' = SBCall("memory_deallocation", 0, ptr_lock, ptr_key, ZeroEntry, FALSE)
  /\ UNCHANGED <<ssVars, fmPairs, WORDSIZE, trie_primary_table, key_id_counter,
                 lock_new_location, free_map_table, stored>>
  /\ UNCHANGED <<otherSBVars, aborted>>

\* Whether __softboundcets_temporal_load_dereference_check(pointer_lock, key)
\* aborts: on a null lock, or when the lock cell does not hold the key.
temporal_check_fails(pointer_lock, key) ==
  \/ pointer_lock = 0
  \/ lockMem[pointer_lock] # key

\* __softboundcets_temporal_load_dereference_check
temporal_load_dereference_check(pointer_lock, key) ==
  /\ ~aborted
  /\ aborted' = temporal_check_fails(pointer_lock, key)
  /\ lastSB' = SBCall("temporal_load_dereference_check", 0, pointer_lock, key,
                      ZeroEntry, temporal_check_fails(pointer_lock, key))
  /\ UNCHANGED <<ssVars, fmPairs, WORDSIZE, trie_primary_table, key_id_counter,
                 lock_next_location, lock_new_location, lockMem,
                 free_map_table, sbLive, sbFreed, stored>>
  /\ UNCHANGED otherSBVars

\* The pointers malloc returns to the program.
HeapPtrs == {4096, 8192}

\* The (lock, key) pairs pointers of the program carry.
CarriedPairs == sbLive \cup sbFreed \cup {[key |-> 0, lock |-> 0]}

NextLock ==
  \/ \E ptr \in HeapPtrs : memory_allocation(ptr)
  \/ \E a \in sbLive : memory_deallocation(a.lock, a.key)
  \/ \E c \in CarriedPairs : temporal_load_dereference_check(c.lock, c.key)

SpecLock == InitSB /\ [][NextLock]_vars

C11_ExhaustionIsFatal ==
  (lastCall.fn = "rewrite_ptr" /\ invalidptr = InvalidUpper) => aborted

\* The value lies in the reserved range (InvalidLower, InvalidUpper).
InReservedRange(src) == InvalidLower < src /\ src < InvalidUpper

\* C12: pchk_getActualValue of a value outside the reserved range, or inside
\* it and never issued by rewrite_ptr, terminates the process.
C12_UnknownValueIsFatal ==
  (/\ lastCall.fn = "pchk_getActualValue"
   /\ \/ ~InReservedRange(lastCall.src)
      \/ \A e \in OOB \cup OOBPool : e.start # lastCall.src) => aborted

(***************************************************************************)
(* The dangling pointer report.                                            *)
(***************************************************************************)
\* C13: the DanglingPointer report for an access to a freed object carries
\* the value the global allocation counter gave the object when it was
\* allocated and the value the global free counter gave it when it was freed.
C13_ReportCarriesEpochs ==
  lastAccess.report.kind = "DanglingPointer" =>
    \E f \in freed :
       /\ lastAccess.addr \in RangeOf(f)
       /\ lastAccess.report.allocgen = f.tag
       /\ lastAccess.report.freegen = f.freeEpoch

(***************************************************************************)
(* Dereference checks: poolcheck of the SafePoolAllocator run-time,        *)
(* poolcheck_debug of the DebugRuntime and the inlined fastlscheck that    *)
(* OptimizeChecks generates.  The allocator of the DebugRuntime is not     *)
(* part of the sources; poolalloc and poolfree maintain the registry the   *)
(* checks of either run-time look the pointer up in.                       *)
(***************************************************************************)
\* The outcome of a dereference check: the number of reports, the kind of
\* the report and whether the process was terminated.
Pass == [reports |-> 0, kind |-> "none", died |-> FALSE]

\* ReportLoadStoreCheck: prints "Load/Store violation" and aborts.
ReportLoadStoreCheck == [reports |-> 1, kind |-> "LoadStoreViolation", died |-> TRUE]

\* ReportMemoryViolation of a DebugViolationInfo of the given type.
ReportMemoryViolation(type) == [reports |-> 1, kind |-> type, died |-> FALSE]

\* A faulty poolcheck that accepts every pointer.
poolcheck_result_pass(Node) == Pass

\* poolcheck(Pool, Node) of the SafePoolAllocator run-time, Pool not null.
poolcheck_result(Node) ==
  LET l == Lookup(Objects, Node)
  IN IF l.found /\ l.start <= Node /\ l.start + l.len > Node THEN Pass
     ELSE ReportLoadStoreCheck

\* _barebone_poolcheck(Pool, Node), Pool not null; end is the last byte.
barebone_poolcheck(Node) ==
  LET l   == Lookup(Objects, Node)
      end == l.start + l.len - 1
  IN l.found /\ l.start <= Node /\ Node <= end

\* poolcheck_debug(Pool, Node, SourceFilep, lineno)
poolcheck_debug_result(Node) ==
  LET x   == Lookup(ExternalObjects, Node)
      end == x.start + x.len - 1
  IN IF barebone_poolcheck(Node) THEN Pass
     ELSE IF x.found /\ x.start <= Node /\ Node <= end THEN Pass
     ELSE IF isRewritePtr(Node) /\ pchk_getActualValue_debug(Node).died
          THEN [reports |-> 0, kind |-> "none", died |-> TRUE]
          ELSE ReportMemoryViolation("FAULT_OUT_OF_BOUNDS")

\* fastlscheck(base, result, size, lslen) as createBodyFor builds it.  The
\* comparisons are unsigned; base and size are those of an object in memory,
\* so base + size does not wrap.
fastlscheck_result(base, result, size, lslen) ==
  LET lastbyte == base + size
  IN IF base <= result /\ result < lastbyte THEN Pass
     ELSE [reports |-> 0, kind |-> "none", died |-> TRUE]

\* The record of a dereference check that guards an access of lslen bytes
\* at Node.
DerefCall(fn, Node, lslen, l, r) ==
  [Call(fn, "Pool", Node, lslen, l, Node, r.reports, FALSE) EXCEPT !.kind = r.kind]

DerefDone(r) ==
  /\ aborted' = (aborted \/ r.died)
  /\ UNCHANGED <<stackVars, sbVars, poolVars, Objects, runtime, StrictIndexing,
                 TrackExternalMallocs, ExternalObjects, InvalidLower, invalidptr,
                 OOB, OOBPool, RewrittenObjs, issuedFor>>

\* poolcheck(Pool, Node) in front of a load or store of lslen bytes.
poolcheck(Node, lslen) ==
  /\ ~aborted
  /\ runtime = "SafePoolAllocator"
  /\ lastCall' = DerefCall("poolcheck", Node, lslen, Lookup(Objects, Node),
                           poolcheck_result(Node))
  /\ DerefDone(poolcheck_result(Node))

\* poolcheck_debug(Pool, Node, ...) in front of a load or store of lslen bytes.
poolcheck_debug(Node, lslen) ==
  /\ ~aborted
  /\ runtime = "DebugRuntime"
  /\ lastCall' = DerefCall("poolcheck_debug", Node, lslen, Lookup(Objects, Node),
                           poolcheck_debug_result(Node))
  /\ DerefDone(poolcheck_debug_result(Node))

\* The inlined check of a load or store of lslen bytes at result, a pointer
\* computed from the start of the live object o.
fastlscheck(o, result, lslen) ==
  /\ ~aborted
  /\ lastCall' = DerefCall("fastlscheck", result, lslen,
                           [found |-> TRUE, start |-> o.start, len |-> o.len],
                           fastlscheck_result(o.start, result, o.len, lslen))
  /\ DerefDone(fastlscheck_result(o.start, result, o.len, lslen))

\* The widest access the program makes.
MaxWidth == 2

\* Pointers the program dereferences: the first byte, the last byte and one
\* past the end of the objects it has allocated.
DerefPtrs == UNION {{o.start, o.start + o.len - 1, o.start + o.len} :
                      o \in live \cup freed}

InitDeref ==
  /\ InitPool
  /\ APPLE = FALSE
  /\ WORDSIZE = 64
  /\ InitSoftBound
  /\ Objects = {}
  /\ aborted = FALSE
  /\ InitRewriter
  /\ runtime \in {"SafePoolAllocator", "DebugRuntime"}
  /\ StrictIndexing = FALSE
  /\ TrackExternalMallocs = FALSE
  /\ ExternalObjects = {}
  /\ InvalidLower = 0

\* Sizes the program asks for: one node and two nodes.
DerefRequests == {1, NodeSize + 1}

NextDeref ==
  \/ \E NumBytes \in DerefRequests : poolalloc(NumBytes)
  \/ \E o \in live, flagsOk \in BOOLEAN : poolfree(o.start, flagsOk)
  \/ \E Node \in DerefPtrs, lslen \in 1..MaxWidth : poolcheck(Node, lslen)
  \/ \E Node \in DerefPtrs, lslen \in 1..MaxWidth : poolcheck_debug(Node, lslen)
  \/ \E o \in live, lslen \in 1..MaxWidth :
       \E result \in {o.start, o.start + o.len - 1, o.start + o.len} :
         fastlscheck(o, result, lslen)

SpecDeref == InitDeref /\ [][NextDeref]_vars

DerefFns == {"poolcheck", "poolcheck_debug"}

\* The last call checked a pointer to the start of an object that poolfree
\* has released.
CheckedFreed ==
  /\ lastCall.fn \in DerefFns
  /\ \E f \in freed : f.start = lastCall.src /\ f.freeEpoch <= lastCall.epoch

\* C14 as stated: the dereference check of a freed pointer reports a
\* violation of kind DanglingPointer.
C14_FreedCheckReportsDangling ==
  CheckedFreed => (lastCall.reports >= 1 /\ lastCall.kind = "DanglingPointer")

\* C14 amended: the dereference check of a freed pointer reports a
\* violation: the load/store violation of poolcheck, which poolcheck_debug
\* files as an out-of-bounds fault.
C14_FreedCheckReportsLoadStore ==
  CheckedFreed =>
    /\ lastCall.reports = 1
    /\ lastCall.kind = (IF lastCall.fn = "poolcheck" THEN "LoadStoreViolation"
                        ELSE "FAULT_OUT_OF_BOUNDS")

C14_Witness ==
  /\ CheckedFreed
  /\ lastCall.fn = "poolcheck"
  /\ lastCall.reports = 1
  /\ aborted


\* The last call was a dereference check that let the access go ahead.
DerefAccepted ==
  /\ lastCall.fn \in DerefFns \cup {"fastlscheck"}
  /\ lastCall.reports = 0
  /\ ~aborted

\* C17: a dereference check accepts an access of width w at p only if the
\* whole access lies inside the object: objStart <= p and
\* p + w <= objStart + objLen.
C17_AcceptedAccessInsideObject ==
  DerefAccepted =>
    /\ lastCall.found
    /\ lastCall.ObjStart <= lastCall.src
    /\ lastCall.src + lastCall.dst <= lastCall.ObjStart + lastCall.ObjLen


(***************************************************************************)
(* The life of one pool: poolinit, allocations, frees of pointers the pool *)
(* holds and of pointers it does not hold, pooldestroy.  A destroyed pool  *)
(* is not used again.                                                      *)
(***************************************************************************)
\* Pointers the program frees although they are not the start of a live
\* object: pointers it has freed already and the address of an object that
\* was never allocated from the pool.
NotLivePtrs == ({f.start : f \in freed} \cup {ObjBase}) \ {o.start : o \in live}

\* Number of frees of such pointers explored.
MaxInvalidFrees == 1

\* Sizes the program asks for: one node and a large array.
LifeRequests == {1, MaxBytes}

InitLife ==
  /\ InitPool
  /\ APPLE = FALSE
  /\ WORDSIZE = 64
  /\ InitSoftBound
  /\ Objects = {}
  /\ aborted = FALSE
  /\ InitRewriter
  /\ runtime = "SafePoolAllocator"
  /\ StrictIndexing = FALSE
  /\ TrackExternalMallocs = FALSE
  /\ ExternalObjects = {}
  /\ InvalidLower = 0

\* The pool has not been destroyed.
InUse == lastOp.op # "pooldestroy"

NextLife ==
  \/ InUse /\ \E NumBytes \in LifeRequests : poolalloc(NumBytes)
  \/ InUse /\ \E o \in live, flagsOk \in BOOLEAN : poolfree(o.start, flagsOk)
  \/ /\ InUse
     /\ globalfreeID - Cardinality(freed) < MaxInvalidFrees
     /\ \E Node \in NotLivePtrs, garbage \in 0..Len(meta), flagsOk \in BOOLEAN :
          poolfree_unregistered(Node, garbage, flagsOk)
  \/ InUse /\ pooldestroy

SpecLife == InitLife /\ [][NextLife]_vars

\* C15: pooldestroy releases every slab of the pool: those on the partial
\* list, on the full list and on the large-array list.
C15_DestroyReleasesEverySlab ==
  lastOp.op = "pooldestroy" => \A id \in DOMAIN slabs : id \in released

\* C16: poolfree of a pointer that is not the start of a live object frees
\* nothing: the bitmaps and cursors of every slab and the registry are as
\* before the call, and every object that was live is still live.
C16_InvalidFreeFreesNothing ==
  [][(/\ globalfreeID' = globalfreeID + 1
      /\ lastOp'.op = "poolfree"
      /\ \A o \in live : o.start # lastOp'.arg)
     => (slabs' = slabs /\ Objects' = Objects /\ live' = live)]_vars


\* The last call was a zero-offset index check of a pointer inside an object
\* of the pool's registry.
ZeroOffsetInObject ==
  /\ lastCall.fn \in CheckFns
  /\ lastCall.src = lastCall.dst
  /\ lastCall.found
  /\ lastCall.ObjStart <= lastCall.src
  /\ lastCall.src < lastCall.ObjStart + lastCall.ObjLen

\* C18: for x inside a registered object, checkIndex(pool, x, x) returns x
\* unchanged, rewrites nothing and reports nothing.
C18_ZeroOffsetIndexSucceeds ==
  ZeroOffsetInObject =>
    /\ lastCall.ret = lastCall.src
    /\ ~lastCall.rw
    /\ lastCall.reports = 0
    /\ ~aborted

C18_Witness ==
  /\ ZeroOffsetInObject
  /\ lastCall.fn = "boundscheck"
  /\ lastCall.src = ObjBase
  /\ lastCall.ret = ObjBase


(***************************************************************************)
(* SoftBound+CETS: the spatial dereference checks.  Pointers are unsigned  *)
(* numbers of PtrBits bits.                                                *)
(***************************************************************************)
\* Width of a pointer in bits, scaled down.
PtrBits == 3

Ptrs == 0..(2^PtrBits - 1)

\* Sizes of the types the program loads and stores.
TypeSizes == {1, 2}

\* (char*) ptr + size_of_type.  A sum past the end of the address space is
\* undefined: the build either drops the carry or compares the exact sum.
ptr_plus(ptr, size_of_type, carry) ==
  IF carry THEN ptr + size_of_type ELSE (ptr + size_of_type) % 2^PtrBits

\* Whether __softboundcets_spatial_load_dereference_check aborts.
spatial_load_aborts(base, bound, ptr, size_of_type, carry) ==
  (ptr < base) \/ (ptr_plus(ptr, size_of_type, carry) > bound)

\* Whether __softboundcets_spatial_store_dereference_check aborts.
spatial_store_aborts(base, bound, ptr, size_of_type, carry) ==
  (ptr < base) \/ (ptr_plus(ptr, size_of_type, carry) > bound)

SpatialCall(fn, base, bound, ptr, size_of_type, failed) ==
  /\ ~aborted
  /\ lastSB' = [SBCall(fn, ptr, 0, 0,
                       [ZeroEntry EXCEPT !.base = base, !.bound = bound], failed)
                  EXCEPT !.size = size_of_type]
  /\ aborted' = failed
  /\ UNCHANGED <<ssVars, fmPairs, WORDSIZE, trie_primary_table, key_id_counter,
                 lock_next_location, lock_new_location, lockMem,
                 free_map_table, sbLive, sbFreed, stored>>
  /\ UNCHANGED otherSBVars

\* __softboundcets_spatial_load_dereference_check
spatial_load_dereference_check(base, bound, ptr, size_of_type, carry) ==
  SpatialCall("spatial_load_dereference_check", base, bound, ptr, size_of_type,
              spatial_load_aborts(base, bound, ptr, size_of_type, carry))

\* __softboundcets_spatial_store_dereference_check
spatial_store_dereference_check(base, bound, ptr, size_of_type, carry) ==
  SpatialCall("spatial_store_dereference_check", base, bound, ptr, size_of_type,
              spatial_store_aborts(base, bound, ptr, size_of_type, carry))

NextSpatial ==
  \/ \E base \in Ptrs, bound \in Ptrs, ptr \in Ptrs, size_of_type \in TypeSizes,
        carry \in BOOLEAN :
       spatial_load_dereference_check(base, bound, ptr, size_of_type, carry)
  \/ \E base \in Ptrs, bound \in Ptrs, ptr \in Ptrs, size_of_type \in TypeSizes,
        carry \in BOOLEAN :
       spatial_store_dereference_check(base, bound, ptr, size_of_type, carry)

SpecSpatial == InitSB /\ [][NextSpatial]_vars

SpatialFns == {"spatial_load_dereference_check", "spatial_store_dereference_check"}

\* C19: the spatial load and store dereference checks abort if and only if
\* ptr < base or ptr + size > bound, and the two variants decide alike.
C19_SpatialCheckAbortsIffOutside ==
  lastSB.fn \in SpatialFns =>
    /\ aborted <=> (\/ lastSB.addr < lastSB.ret.base
                    \/ lastSB.addr + lastSB.size > lastSB.ret.bound)
    /\ \A carry \in BOOLEAN :
         spatial_load_aborts(lastSB.ret.base, lastSB.ret.bound, lastSB.addr,
                             lastSB.size, carry)
         = spatial_store_aborts(lastSB.ret.base, lastSB.ret.bound, lastSB.addr,
                                lastSB.size, carry)


(***************************************************************************)
(* SoftBound+CETS: __softboundcets_copy_metadata.                          *)
(***************************************************************************)
\* The words from + 8k with 8k < size.
WordsOf(from, size) == {from + 8 * k : k \in {j \in 0..(size \div 8) : 8 * j < size}}

\* The entries of the words of [ptr, ptr + size) are among those kept.
InTrie(ptr, size) ==
  \A a \in WordsOf(ptr, size) :
     /\ primary_index(a) \in PrimaryIndexes
     /\ secondary_index(a) \in SecondaryIndexes

\* The loop of copy_metadata for ranges that cross an entry of the primary
\* table, from the given index on.
RECURSIVE copy_by_word(_, _, _, _, _)
copy_by_word(tab, dest, from, index, size) ==
  IF ~(index < size) THEN tab
  ELSE LET temp_from_pindex == primary_index(from + index)
           temp_to_pindex   == primary_index(dest + index)
           dest_secondary_index == secondary_index(dest + index)
           from_secondary_index == secondary_index(from + index)
           t1 == IF tab[temp_from_pindex] = NullTable
                 THEN [tab EXCEPT ![temp_from_pindex] = trie_allocate] ELSE tab
           t2 == IF t1[temp_to_pindex] = NullTable
                 THEN [t1 EXCEPT ![temp_to_pindex] = trie_allocate] ELSE t1
           t3 == [t2 EXCEPT ![temp_to_pindex][dest_secondary_index] =
                                t2[temp_from_pindex][from_secondary_index]]
       IN copy_by_word(t3, dest, from, index + 8, size)

\* memcpy of entries within one table, entry by entry in the order js.
RECURSIVE memcpy_seq(_, _, _, _)
memcpy_seq(t, di, fi, js) ==
  IF js = <<>> THEN t
  ELSE memcpy_seq([t EXCEPT ![di + Head(js)] = t[fi + Head(js)]], di, fi, Tail(js))

\* memcpy(dest_entry_ptr, from_entry_ptr, 32 * cnt) from table tf to table td.
\* When the two runs of entries overlap the call is undefined: the library
\* copies upwards, downwards or through a buffer.
memcpy_entries(td, tf, di, fi, cnt, order) ==
  IF td = tf /\ order = "up"
    THEN memcpy_seq(td, di, fi, [j \in 1..cnt |-> j - 1])
  ELSE IF td = tf /\ order = "down"
    THEN memcpy_seq(td, di, fi, [j \in 1..cnt |-> cnt - j])
  ELSE [i \in DOMAIN td |->
          IF di <= i /\ i < di + cnt THEN tf[fi + (i - di)] ELSE td[i]]

\* copy_metadata for ranges under one entry of the primary table each.
copy_block(tab, dest, from, size, order) ==
  LET dest_primary_index_begin == primary_index(dest)
      from_primary_index_begin == primary_index(from)
      trie_secondary_table_from_begin == tab[from_primary_index_begin]
      allocated == IF tab[dest_primary_index_begin] = NullTable
                   THEN [tab EXCEPT ![dest_primary_index_begin] = trie_allocate]
                   ELSE tab
  IN IF trie_secondary_table_from_begin = NullTable THEN tab
     ELSE [allocated EXCEPT ![dest_primary_index_begin] =
             memcpy_entries(allocated[dest_primary_index_begin],
                            allocated[from_primary_index_begin],
                            secondary_index(dest), secondary_index(from),
                            size \div 8, order)]

\* The trie after __softboundcets_copy_metadata(dest, from, size).
copy_metadata_trie(dest, from, size, order) ==
  IF from % 8 # 0 THEN trie_primary_table
  ELSE IF \/ primary_index(from) # primary_index(from + size)
          \/ primary_index(dest) # primary_index(dest + size)
       THEN copy_by_word(trie_primary_table, dest, from, 0, size)
       ELSE copy_block(trie_primary_table, dest, from, size, order)

\* __softboundcets_copy_metadata
copy_metadata(dest, from, size, order) ==
  /\ ~aborted
  /\ InTrie(dest, size) /\ InTrie(from, size)
  /\ trie_primary_table' = copy_metadata_trie(dest, from, size, order)
  /\ lastSB' = [SBCall("copy_metadata", dest, 0, 0, ZeroEntry, FALSE)
                  EXCEPT !.size = size, !.from = from]
  /\ UNCHANGED <<ssVars, fmPairs, WORDSIZE, key_id_counter, lock_next_location,
                 lock_new_location, lockMem, free_map_table, sbLive, sbFreed,
                 stored>>
  /\ UNCHANGED <<otherSBVars, aborted>>

\* Addresses the program copies between: two adjacent words, a word that is
\* not 8-byte aligned, the last word under the first entry of the primary
\* table and a word under the second.
CopyAddrs == {8, 12, 16, 2^25 - 8, 2^25 + 8}

\* The metadata the program stores for the pointer in slot a.
MetaOf(a) ==
  [base |-> 4096 + a, bound |-> 4104 + a, key |-> FirstKey,
   lock |-> LockSpaceBegin]

\* Byte counts of the copies: one word, one and a half, two.
CopySizes == {8, 12, 16}

\* The runs of entries that the memcpy of copy_metadata reads and writes
\* overlap.
Overlap(dest, from, size) ==
  /\ dest # from
  /\ primary_index(dest) = primary_index(from)
  /\ \E i \in 0..(size \div 8 - 1), j \in 0..(size \div 8 - 1) :
        secondary_index(dest) + i = secondary_index(from) + j

\* The orders in which the library may copy.
Orders(dest, from, size) ==
  IF Overlap(dest, from, size) THEN {"up", "down", "buffer"} ELSE {"buffer"}

NextCopy ==
  \/ \E a \in {8} :
        metadata_store(a, MetaOf(a).base, MetaOf(a).bound, MetaOf(a).key,
                       MetaOf(a).lock)
  \/ \E dest \in CopyAddrs, from \in CopyAddrs, size \in CopySizes :
        \E order \in Orders(dest, from, size) :
           copy_metadata(dest, from, size, order)

SpecCopy == InitSB /\ [][NextCopy]_vars

\* What __softboundcets_metadata_load(addr_of_ptr, ...) returns when the
\* primary table is tab.
LoadIn(tab, addr_of_ptr) ==
  IF tab[primary_index(addr_of_ptr)] = NullTable THEN ZeroEntry
  ELSE tab[primary_index(addr_of_ptr)][secondary_index(addr_of_ptr)]

\* C20: after __softboundcets_copy_metadata(dest, src, n), for every k with
\* 0 <= 8k < n a load of dest + 8k returns what a load of src + 8k returned
\* right before the call.
C20_CopyDuplicatesEntries ==
  [][lastSB'.fn = "copy_metadata" =>
       \A k \in 0..2 :
          8 * k < lastSB'.size =>
            LoadIn(trie_primary_table', lastSB'.addr + 8 * k)
              = LoadIn(trie_primary_table, lastSB'.from + 8 * k)]_vars


\* C27: one index-check call emits at most one violation report, whichever
\* path the check takes and whatever the setting of strict indexing.
C27_AtMostOneReport ==
  lastCall.fn \in CheckFns => lastCall.reports <= 1

\* C28: every value rewrite_ptr returns as a rewritten pointer, and every
\* value recorded in a reverse map, lies strictly between InvalidLower and
\* InvalidUpper, also in calls made after the cursor reached InvalidUpper.
C28_SentinelInsideRange ==
  /\ \A e \in OOB \cup OOBPool : InvalidLower < e.start /\ e.start < InvalidUpper
  /\ (lastCall.fn = "rewrite_ptr" /\ lastCall.ret # lastCall.src)
       => (InvalidLower < lastCall.ret /\ lastCall.ret < InvalidUpper)

\* A slab has a node that is not allocated.
hasFreeNode(s) == \E i \in NodeIdx : ~isNodeAllocated(s, i)

\* C22: after every poolalloc and every poolfree, a slab that is not a
\* single-array slab is on the full list Ptr2 exactly if it has no free node.
C22_FullListIffNoFreeNode ==
  ~aborted =>
    \A id \in SeqElems(Ptr1) \cup SeqElems(Ptr2) :
      ~slabs[id].isSingleArray => (InSeq(Ptr2, id) <=> ~hasFreeNode(slabs[id]))

(***************************************************************************)
(* PoolSlab on its own: allocateSingle, allocateMultiple and freeElement    *)
(* called on slabs that PoolSlab::create has just made.                    *)
(***************************************************************************)
SlabIds == 1..2

\* The run of nodes an allocation on slab id returned.
RunOf(id, Idx, n) ==
  [start |-> getElementAddress(slabs[id], Idx, NodeSize), len |-> n * NodeSize,
   slab |-> id, idx |-> Idx, n |-> n, tag |-> 0]

\* What a slab method leaves behind: the slab, or the failed assertion.
SlabDone(fn, id, arg, res, runs) ==
  /\ ~aborted
  /\ aborted' = res.af
  /\ slabs' = IF res.af THEN slabs ELSE [slabs EXCEPT ![id] = res.s]
  /\ live' = IF res.af THEN live ELSE runs
  /\ lastOp' = [op |-> fn, slab |-> id, arg |-> arg, ret |-> res.ret,
                nodes |-> Cardinality({i \in NodeIdx :
                                         slabs[id].alloc[i] # res.s.alloc[i]})]
  /\ UNCHANGED <<Ptr1, Ptr2, LargeArrays, released, nextPage, nextShadow, DPTree,
                 meta, globalallocID, globalfreeID, protected, sigbus,
                 lastAccess, freed, APPLE, Objects>>
  /\ UNCHANGED <<checkVars, sbVars, stackVars>>

\* PS->allocateSingle()
call_allocateSingle(id) ==
  LET res == allocateSingle(slabs[id])
  IN SlabDone("allocateSingle", id, 1, res,
              IF res.ret = -1 THEN live ELSE live \cup {RunOf(id, res.ret, 1)})

\* PS->allocateMultiple(Size)
call_allocateMultiple(id, Size) ==
  LET res == allocateMultiple(slabs[id], Size)
  IN SlabDone("allocateMultiple", id, Size, res,
              IF res.ret = -1 THEN live ELSE live \cup {RunOf(id, res.ret, Size)})

\* PS->freeElement(ElementIdx)
call_freeElement(id, ElementIdx) ==
  LET res == freeElement(slabs[id], ElementIdx)
  IN SlabDone("freeElement", id, ElementIdx, res,
              {o \in live : ~(o.slab = id /\ o.idx = ElementIdx)})

InitSlab ==
  /\ slabs = [id \in SlabIds |-> PoolSlab_create(id)]
  /\ Ptr1 = <<2, 1>>
  /\ Ptr2 = <<>>
  /\ LargeArrays = <<>>
  /\ released = {}
  /\ nextPage = 3
  /\ nextShadow = 0
  /\ DPTree = {}
  /\ meta = <<>>
  /\ globalallocID = 0
  /\ globalfreeID = 0
  /\ protected = {}
  /\ sigbus = "SIG_DFL"
  /\ StackSlabs = <<>>
  /\ FreeStackSlabs = <<>>
  /\ allocas = {}
  /\ lastAccess = [addr |-> 0, faulted |-> FALSE, report |-> NoReport]
  /\ live = {}
  /\ freed = {}
  /\ lastOp = [op |-> "create", slab |-> 0, arg |-> 0, ret |-> 0, nodes |-> 0]
  /\ APPLE = FALSE
  /\ WORDSIZE = 64
  /\ InitSoftBound
  /\ Objects = {}
  /\ aborted = FALSE
  /\ InitRewriter
  /\ runtime = "SafePoolAllocator"
  /\ StrictIndexing = FALSE
  /\ TrackExternalMallocs = FALSE
  /\ ExternalObjects = {}
  /\ InvalidLower = 0

NextSlab ==
  \/ \E id \in SlabIds : call_allocateSingle(id)
  \/ \E id \in SlabIds, Size \in 1..NodesPerSlab : call_allocateMultiple(id, Size)
  \/ \E id \in SlabIds, ElementIdx \in NodeIdx : call_freeElement(id, ElementIdx)

SpecSlab == InitSlab /\ [][NextSlab]_vars

SlabFns == {"allocateSingle", "allocateMultiple", "freeElement"}

RunsStartingAt(id, i) == {o \in live : o.slab = id /\ o.idx = i}
RunsCovering(id, i) == {o \in live : o.slab = id /\ o.idx <= i /\ i < o.idx + o.n}

\* C24: at every point of a sequence of slab allocations and frees, a node's
\* start bit is set exactly if the node is the first node of a live
\* allocation, a multi-node allocation carries one start bit, and the
\* allocated bits are those of the nodes of live allocations: a free clears
\* the bits of its own run and of no neighbouring allocation.
C24_StartBitsMatchLive ==
  \A id \in SlabIds, i \in NodeIdx :
    /\ isStartOfAllocation(slabs[id], i) <=> RunsStartingAt(id, i) # {}
    /\ isNodeAllocated(slabs[id], i) <=> RunsCovering(id, i) # {}
    /\ Cardinality(RunsCovering(id, i)) <= 1

\* A multi-node run was freed while the allocation behind it stays live.
C24_Witness ==
  /\ ~aborted
  /\ lastOp.op = "freeElement"
  /\ lastOp.arg = 0
  /\ lastOp.nodes = 2
  /\ ~isNodeAllocated(slabs[lastOp.slab], 0)
  /\ ~isNodeAllocated(slabs[lastOp.slab], 1)
  /\ \E o \in live : o.slab = lastOp.slab /\ o.idx = 2

(***************************************************************************)
(* Index checks whose source is a rewritten pointer.                       *)
(***************************************************************************)
\* The last call was an index check whose Source is a rewritten pointer that
\* an earlier check issued for an out-of-bounds pointer of an object.
SentinelSource ==
  /\ lastCall.fn \in CheckFns
  /\ \E r \in issuedFor : r.ptr = lastCall.src /\ r.obj /\ r.ptr # lastCall.ret

\* What the Source of the last call was issued for.
IssuedBounds(s) == CHOOSE r \in issuedFor : r.ptr = s

\* q + (result - source)
TrueResult ==
  (IssuedBounds(lastCall.src).q + lastCall.dst + AddrSpace - lastCall.src)
    % AddrSpace

\* C25: an index check whose source is a rewritten pointer issued for q of
\* object [objStart, objEnd] computes the true result q + (result - source);
\* a true result inside [objStart, objEnd] is returned as it is, with no
\* report and no rewrite; otherwise the failure handling runs on the true
\* result: it is rewritten, or reported and returned.
C25_SentinelSourceUnrewritten ==
  (SentinelSource /\ ~aborted) =>
    LET b == IssuedBounds(lastCall.src)
    IN IF b.first <= TrueResult /\ TrueResult <= b.second
       THEN lastCall.ret = TrueResult /\ lastCall.reports = 0 /\ ~lastCall.rw
       ELSE IF StrictIndexing = FALSE \/ TrueResult = b.second + 1
       THEN /\ lastCall.rw
            /\ lastCall.reports = 0
            /\ [start |-> lastCall.ret, len |-> 1, tag |-> TrueResult] \in OOB
       ELSE lastCall.reports = 1 /\ lastCall.ret = TrueResult

(***************************************************************************)
(* SoftBound+CETS: the shadow stack.  A frame is the size of the previous  *)
(* frame, its own size, and METADATA_NUM_FIELDS words per pointer argument. *)
(***************************************************************************)
\* Values the function that owns the current frame passes in field index of
\* an argument: a value no other frame and no other field holds and, for the
\* base, a second one.
ArgValues(index) ==
  LET tag == (Len(frames) - 1) * METADATA_NUM_FIELDS + index + 1
  IN IF index = BASE_INDEX THEN {tag, tag + MaxDepth * METADATA_NUM_FIELDS}
     ELSE {tag}

NoArgs == [i \in 0..(MaxArgs - 1) |-> [f \in 0..(METADATA_NUM_FIELDS - 1) |-> 0]]

\* What a shadow-stack call leaves outside the shadow stack.
ShadowDone(fn, arg_no, value) ==
  /\ ~aborted
  /\ lastSB' = SBCall(fn, arg_no, 0, 0, value, FALSE)
  /\ UNCHANGED <<fmPairs, WORDSIZE, trie_primary_table, key_id_counter,
                 lock_next_location, lock_new_location, lockMem,
                 free_map_table, sbLive, sbFreed, stored>>
  /\ UNCHANGED <<otherSBVars, aborted>>

\* __softboundcets_allocate_shadow_stack_space(num_pointer_args)
allocate_shadow_stack_space(num_pointer_args) ==
  LET prev_stack_size == shadow_stack[shadow_stack_ptr + 1]
      new_ptr == shadow_stack_ptr + prev_stack_size + 2
      size == num_pointer_args * METADATA_NUM_FIELDS
  IN /\ Len(frames) < MaxDepth
     /\ shadow_stack_ptr' = new_ptr
     /\ shadow_stack' = [shadow_stack EXCEPT ![new_ptr] = prev_stack_size,
                                             ![new_ptr + 1] = size]
     /\ frames' = Append(frames, [before |-> shadow_stack_ptr,
                                  n |-> num_pointer_args, vals |-> NoArgs])
     /\ ShadowDone("allocate_shadow_stack_space", num_pointer_args, shadow_stack_ptr)

\* __softboundcets_deallocate_shadow_stack_space() of a frame that
\* __softboundcets_allocate_shadow_stack_space made.
deallocate_shadow_stack_space ==
  LET read_value == shadow_stack[shadow_stack_ptr]
  IN /\ frames # <<>>
     /\ shadow_stack_ptr' = shadow_stack_ptr - read_value - 2
     /\ frames' = SubSeq(frames, 1, Len(frames) - 1)
     /\ ShadowDone("deallocate_shadow_stack_space", 0, frames[Len(frames)].before)
     /\ UNCHANGED shadow_stack

\* A faulty addressing that forgets the two size words of the frame.
ShadowSlot_noHeader(arg_no, index) ==
  shadow_stack_ptr + arg_no * METADATA_NUM_FIELDS + index

\* The word of field index of argument arg_no in the current frame.
ShadowSlot(arg_no, index) ==
  shadow_stack_ptr + 2 + arg_no * METADATA_NUM_FIELDS + index

\* __softboundcets_store_{base,bound,key,lock}_shadow_stack(value, arg_no)
store_shadow_stack(fn, index, value, arg_no) ==
  /\ frames # <<>>
  /\ arg_no < frames[Len(frames)].n
  /\ shadow_stack' = [shadow_stack EXCEPT ![ShadowSlot(arg_no, index)] = value]
  /\ frames' = [frames EXCEPT ![Len(frames)].vals[arg_no][index] = value]
  /\ ShadowDone(fn, arg_no, value)
  /\ UNCHANGED shadow_stack_ptr

store_base_shadow_stack(base, arg_no) ==
  store_shadow_stack("store_base_shadow_stack", BASE_INDEX, base, arg_no)

store_bound_shadow_stack(bound, arg_no) ==
  store_shadow_stack("store_bound_shadow_stack", BOUND_INDEX, bound, arg_no)

store_key_shadow_stack(key, arg_no) ==
  store_shadow_stack("store_key_shadow_stack", KEY_INDEX, key, arg_no)

store_lock_shadow_stack(lock, arg_no) ==
  store_shadow_stack("store_lock_shadow_stack", LOCK_INDEX, lock, arg_no)

\* __softboundcets_load_{base,bound,key,lock}_shadow_stack(arg_no)
load_shadow_stack(fn, index, arg_no) ==
  /\ ShadowSlot(arg_no, index) < ShadowWords
  /\ ShadowDone(fn, arg_no, shadow_stack[ShadowSlot(arg_no, index)])
  /\ UNCHANGED ssVars

load_base_shadow_stack(arg_no) ==
  load_shadow_stack("load_base_shadow_stack", BASE_INDEX, arg_no)

load_bound_shadow_stack(arg_no) ==
  load_shadow_stack("load_bound_shadow_stack", BOUND_INDEX, arg_no)

load_key_shadow_stack(arg_no) ==
  load_shadow_stack("load_key_shadow_stack", KEY_INDEX, arg_no)

load_lock_shadow_stack(arg_no) ==
  load_shadow_stack("load_lock_shadow_stack", LOCK_INDEX, arg_no)

ArgNos == 0..(MaxArgs - 1)

NextStack ==
  \/ \E n \in 0..MaxArgs : allocate_shadow_stack_space(n)
  \/ deallocate_shadow_stack_space
  \/ \E v \in ArgValues(BASE_INDEX), i \in ArgNos : store_base_shadow_stack(v, i)
  \/ \E v \in ArgValues(BOUND_INDEX), i \in ArgNos : store_bound_shadow_stack(v, i)
  \/ \E v \in ArgValues(KEY_INDEX), i \in ArgNos : store_key_shadow_stack(v, i)
  \/ \E v \in ArgValues(LOCK_INDEX), i \in ArgNos : store_lock_shadow_stack(v, i)
  \/ \E i \in ArgNos : load_base_shadow_stack(i)
  \/ \E i \in ArgNos : load_bound_shadow_stack(i)
  \/ \E i \in ArgNos : load_key_shadow_stack(i)
  \/ \E i \in ArgNos : load_lock_shadow_stack(i)

InitStack == InitSB /\ WORDSIZE = 64

SpecStack == InitStack /\ [][NextStack]_vars

\* The field index a shadow-stack load function reads.
LoadIndex ==
  [load_base_shadow_stack |-> BASE_INDEX, load_bound_shadow_stack |-> BOUND_INDEX,
   load_key_shadow_stack |-> KEY_INDEX, load_lock_shadow_stack |-> LOCK_INDEX]

\* The frame of the caller: the one the shadow-stack pointer is at.
TopFrame == frames[Len(frames)]

\* C21: for properly nested allocations and deallocations of frames, the
\* deallocate that matches an allocate leaves the shadow-stack pointer where
\* it was just before that allocate, and a load of a field of argument i
\* returns what the owner of the frame last stored there, whatever the
\* callees stored into their frames in between.
C21_FramesNest ==
  /\ lastSB.fn = "deallocate_shadow_stack_space" => shadow_stack_ptr = lastSB.ret
  /\ (/\ lastSB.fn \in DOMAIN LoadIndex
      /\ frames # <<>>
      /\ lastSB.addr < TopFrame.n
      /\ TopFrame.vals[lastSB.addr][LoadIndex[lastSB.fn]] # 0)
     => lastSB.ret = TopFrame.vals[lastSB.addr][LoadIndex[lastSB.fn]]

\* The caller loads the base it stored for argument 0 after a callee has
\* allocated its frame above, stored its own base there and returned.
C21_Witness ==
  /\ lastSB.fn = "load_base_shadow_stack"
  /\ Len(frames) = 1
  /\ TopFrame.n = 1
  /\ lastSB.ret # 0
  /\ lastSB.ret = TopFrame.vals[0][BASE_INDEX]
  /\ shadow_stack[shadow_stack_ptr + 2 + METADATA_NUM_FIELDS + 2 + BASE_INDEX] # 0

(***************************************************************************)
(* SoftBound+CETS: the free map, checked when the program frees a pointer. *)
(***************************************************************************)
\* The probing loop of __softboundcets_check_remove_from_free_map, from
\* counter on: a zero tag aborts, the tag of ptr is overwritten with 2.
RECURSIVE check_remove_from(_, _, _)
check_remove_from(ptr_key, ptr, counter) ==
  LET index == (ptr_key + counter) % N_FREE_MAP_ENTRIES
      tag == FreeMapTag(index)
  IN IF tag = 0 THEN [table |-> free_map_table, died |-> TRUE]
     ELSE IF tag = ptr
       THEN [table |-> [free_map_table EXCEPT ![index] = 2], died |-> FALSE]
       ELSE IF counter >= N_FREE_MAP_ENTRIES
              THEN [table |-> free_map_table, died |-> TRUE]
              ELSE check_remove_from(ptr_key, ptr, counter + 1)

\* __softboundcets_check_remove_from_free_map(ptr_key, ptr)
check_remove_from_free_map(ptr_key, ptr) ==
  LET r == check_remove_from(ptr_key, ptr, 0)
      wasAdded == [key |-> ptr_key, ptr |-> ptr] \in fmPairs
  IN /\ ~aborted
     /\ free_map_table' = r.table
     /\ aborted' = r.died
     /\ fmPairs' = IF r.died THEN fmPairs
                   ELSE fmPairs \ {[key |-> ptr_key, ptr |-> ptr]}
     /\ lastSB' = [SBCall("check_remove_from_free_map", ptr, 0, ptr_key,
                          ZeroEntry, r.died)
                     EXCEPT !.from = IF wasAdded THEN 1 ELSE 0]
     /\ UNCHANGED <<ssVars, WORDSIZE, trie_primary_table, key_id_counter,
                    lock_next_location, lock_new_location, lockMem, sbLive,
                    sbFreed, stored>>
     /\ UNCHANGED otherSBVars

\* The keys the program holds: those handed out so far.
IssuedKeys == FirstKey..(key_id_counter - 1)

\* malloc returns an address no live allocation has; free is called with the
\* key the pointer carries and the address.
NextFreeMap ==
  \/ \E ptr \in HeapPtrs \ {p.ptr : p \in fmPairs} : memory_allocation(ptr)
  \/ \E k \in IssuedKeys, ptr \in HeapPtrs : check_remove_from_free_map(k, ptr)

SpecFreeMap == InitSB /\ [][NextFreeMap]_vars

\* C26: __softboundcets_check_remove_from_free_map(key, ptr) returns only for
\* a pair that was added and not removed since; for a pair never added or
\* removed before it aborts; and the entry of every allocation that is still
\* live stays in the map.
C26_RemoveOnlyAddedPair ==
  /\ lastSB.fn = "check_remove_from_free_map" => (lastSB.failed <=> lastSB.from = 0)
  /\ \A p \in fmPairs : \E index \in DOMAIN free_map_table :
        free_map_table[index] = p.ptr

(***************************************************************************)
(* Stack slabs: pool_newstack, pool_alloca and pool_delstack, the heap     *)
(* replacement for promoted stack allocations.  A stack slab is identified *)
(* by the shadow page RemapObject mapped it at.                            *)
(***************************************************************************)
\* sizeof (unsigned int): the unit StackSlab::allocate rounds a size up to.
StackWordBytes == 2
\* Bytes of a StackSlab in front of data: Canonical, PrevPtr, Next and tos.
StackHeaderBytes == 2
\* Elements of StackSlab::data; header and data fill one page.
StackWords == (PPageSize - StackHeaderBytes) \div StackWordBytes
\* pool_newstack is explored while fewer shadow pages than this are mapped.
MaxRemaps == 3

\* StackSlab::allocate(size) on the slab PS: the address of the old top of
\* stack, the slab with the top moved up by the rounded size, and whether
\* assert (tos < &(data[1020])) fails.
StackSlab_allocate(PS, size) ==
  LET rounded      == ((size + StackWordBytes - 1) \div StackWordBytes) * StackWordBytes
      NumberOfInts == rounded \div StackWordBytes
      tos          == PS.tos + NumberOfInts
  IN [ret |-> PS.shadow * PPageSize + StackHeaderBytes + PS.tos * StackWordBytes,
      s   |-> [PS EXCEPT !.tos = tos],
      af  |-> ~(tos < StackWords)]

\* pool_newstack(Pool): the head of FreeStackSlabs or a new page, remapped
\* at a fresh shadow page, cleared and linked at the head of StackSlabs.
pool_newstack ==
  /\ ~aborted
  /\ nextShadow < MaxRemaps
  /\ LET reuse == FreeStackSlabs # <<>>
         canon == IF reuse THEN Head(FreeStackSlabs) ELSE nextPage
         PS    == [shadow |-> PageOf(RemapObject(canon * PPageSize)),
                   canon |-> canon, tos |-> 0]
     IN /\ FreeStackSlabs' = IF reuse THEN Tail(FreeStackSlabs) ELSE FreeStackSlabs
        /\ nextPage' = IF reuse THEN nextPage ELSE nextPage + 1
        /\ nextShadow' = nextShadow + 1
        /\ StackSlabs' = <<PS>> \o StackSlabs
        /\ lastOp' = [op |-> "pool_newstack", arg |-> 0, ret |-> PS.shadow * PPageSize]
  /\ UNCHANGED <<slabs, Ptr1, Ptr2, LargeArrays, released, Objects, DPTree, meta,
                 globalallocID, globalfreeID, protected, sigbus, lastAccess,
                 aborted, APPLE, live, freed, allocas>>
  /\ UNCHANGED <<checkVars, sbVars>>

\* pool_alloca(Pool, NumBytes) of the debugging build: the object is taken
\* from the slab at the head of StackSlabs and registered in DPTree and in
\* the registry of the pool.
pool_alloca(NumBytes) ==
  /\ ~aborted
  /\ globalallocID < MaxAllocs
  /\ IF StackSlabs = <<>>
     THEN /\ aborted' = TRUE
          /\ UNCHANGED <<StackSlabs, Objects, DPTree, meta, globalallocID,
                         allocas, lastOp>>
     ELSE LET NB == AtLeastOneByte(NumBytes)
              r  == StackSlab_allocate(Head(StackSlabs), NB)
              id == globalallocID + 1
          IN IF r.af
             THEN /\ aborted' = TRUE
                  /\ UNCHANGED <<StackSlabs, Objects, DPTree, meta,
                                 globalallocID, allocas, lastOp>>
             ELSE /\ StackSlabs' = <<r.s>> \o Tail(StackSlabs)
                  /\ globalallocID' = id
                  /\ meta' = (id :> createPtrMetaData(id, globalfreeID, r.ret)) @@ meta
                  /\ DPTree' = adl_splay_insert(DPTree, r.ret, NB, id)
                  /\ Objects' = adl_splay_insert(Objects, r.ret, NB, id)
                  /\ allocas' = allocas \cup
                                  {[start |-> r.ret, len |-> NB,
                                    slab |-> Head(StackSlabs).shadow,
                                    released |-> FALSE]}
                  /\ lastOp' = [op |-> "pool_alloca", arg |-> NumBytes, ret |-> r.ret]
                  /\ aborted' = aborted
  /\ UNCHANGED <<slabs, Ptr1, Ptr2, LargeArrays, released, nextPage, nextShadow,
                 FreeStackSlabs, globalfreeID, protected, sigbus, lastAccess,
                 APPLE, live, freed>>
  /\ UNCHANGED <<checkVars, sbVars>>

\* pool_delstack(Pool): the slab at the head of StackSlabs is unlinked, its
\* canonical page is put on FreeStackSlabs and its shadow page is made
\* inaccessible.  Without a stack slab PS is null and the call faults.
pool_delstack ==
  /\ ~aborted
  /\ IF StackSlabs = <<>>
     THEN /\ aborted' = TRUE
          /\ UNCHANGED <<StackSlabs, FreeStackSlabs, protected, allocas, lastOp>>
     ELSE LET PS == Head(StackSlabs)
          IN /\ StackSlabs' = Tail(StackSlabs)
             /\ FreeStackSlabs' = <<PS.canon>> \o FreeStackSlabs
             /\ protected' = ProtectShadowPage(protected, PS.shadow * PPageSize, 1)
             /\ allocas' = {IF a.slab = PS.shadow THEN [a EXCEPT !.released = TRUE]
                            ELSE a : a \in allocas}
             /\ lastOp' = [op |-> "pool_delstack", arg |-> 0,
                           ret |-> PS.shadow * PPageSize]
             /\ aborted' = aborted
  /\ UNCHANGED <<slabs, Ptr1, Ptr2, LargeArrays, released, nextPage, nextShadow,
                 Objects, DPTree, meta, globalallocID, globalfreeID, sigbus,
                 lastAccess, APPLE, live, freed>>
  /\ UNCHANGED <<checkVars, sbVars>>

\* Sizes pool_alloca is asked for: zero bytes and more than one word.
AllocaRequests == {0, StackWordBytes + 1}

\* Addresses the program dereferences after the frame returned: the first
\* byte of the objects of released stack slabs.
ReleasedAddrs == {a.start : a \in {x \in allocas : x.released}}

InitAlloca ==
  /\ InitPool
  /\ APPLE = FALSE
  /\ WORDSIZE = 64
  /\ InitSoftBound
  /\ Objects = {}
  /\ aborted = FALSE
  /\ InitRewriter
  /\ runtime = "SafePoolAllocator"
  /\ StrictIndexing = FALSE
  /\ TrackExternalMallocs = FALSE
  /\ ExternalObjects = {}
  /\ InvalidLower = 0

NextAlloca ==
  \/ pool_newstack
  \/ \E NumBytes \in AllocaRequests : pool_alloca(NumBytes)
  \/ pool_delstack
  \/ poolalloc(1)
  \/ \E o \in live : poolfree(o.start, TRUE)
  \/ \E addr \in ReleasedAddrs \cup FreedAddrs : Access(addr)

SpecAlloca == InitAlloca /\ [][NextAlloca]_vars

\* C29: whenever a shadow page is protected, by poolfree or by
\* pool_delstack, bus_error_handler is the installed disposition of the
\* protection fault, in every order of the calls.
C29_HandlerInstalledWhenProtected ==
  protected # {} => sigbus = "bus_error_handler"

\* C30: the registry of the pool holds no object that pool_alloca allocated
\* from a stack slab that pool_delstack has released.
C30_ReleasedAllocasUnregistered ==
  \A a \in allocas : a.released => splay_find(Objects, a.start) = {}

====
